---- MODULE Spec2Model ----
(***************************************************************************)
(* A model of the retrieval-augmented question answering core of the FTC   *)
(* manual assistant: the in-memory vector store with its JSON snapshot     *)
(* (lib/services/vectorStore, lines 275-461 of src/lib/services/claude.ts),*)
(* the context selector and answer assembler (src/lib/services/rag.ts) and *)
(* the tool-calling loop generateChatCompletionWithTools                   *)
(* (src/lib/services/claude.ts, lines 57-208).                             *)
(*                                                                         *)
(* Numbers.  A similarity score is the real dot / sqrt(nn), kept as the    *)
(* pair [dot, nn] and compared exactly (ScoreLT, ScoreGE); nn = 0 is the   *)
(* NaN that 0/0 gives.  Floating-point rounding is not modelled.           *)
(* Strings.  A source name is kept as the sequence of its ':'-separated    *)
(* segments ("C:man.pdf" is <<"C", "man.pdf">>), which is all that         *)
(* `${source}:${page}` and key.split(":")[0] look at.  An optional value   *)
(* is <<>> when undefined and <<v>> when defined; an undefined source is   *)
(* <<>> (a string always has at least one segment).                        *)
(***************************************************************************)
EXTENDS Integers, Sequences, FiniteSets, TLC

VARIABLES
  vectorStore,  \* claude.ts:304  let vectorStore: VectorRecord[]
  disk,         \* the file at VECTOR_STORE_PATH: <<>> when absent, <<snapshot>> when present
  lastOp,       \* what the last vector-store call did and returned (observation)
  loaded,       \* history: a call of getVectorStore has completed in this process
  purged,       \* history: records discarded by createVectorStore and not added since
  saved,        \* history: <<the collection the snapshot on disk was written from>>
  input,        \* the argument list of the pure function under check
  output,       \* the value the pure function returned for input
  run,          \* per request: the locals of answerQuestion and of the tool loop
  live,         \* the requests the server has been sent
  mutations,    \* how many times the store was changed while requests are served
  threads,          \* useThreadManager.tsx:102  useState<Thread[]>
  currentThreadId,  \* useThreadManager.tsx:103  useState<string | null>: <<>> or <<id>>
  client        \* the browser's chat runtime: the handler in flight and what it closed over

vars == <<vectorStore, disk, lastOp, loaded, purged, saved, input, output, run, live, mutations,
         threads, currentThreadId, client>>


-----------------------------------------------------------------------------
(* Bounds of the model *)

MaxStore == 2   \* records in the in-memory store
MaxBatch == 1   \* records in one addDocuments batch
MaxK == 3       \* largest topK asked of queryVectorStore
MaxChunks == 3  \* chunks handed to extractSources
MaxToolUses == 2   \* tool_use blocks in one model response
MaxToolCalls == 3  \* tool_use blocks the model sends to the runs in flight
MaxIterOpt == 3    \* largest options.maxIterations of a direct call of the tool loop
MaxMutations == 1  \* changes made to the store while a request is served
MaxBudget == 3     \* largest token budget handed to filterAndRankChunks
MaxDim == 2        \* longest vector handed to cosineSimilarity on its own
MaxDocs == 201     \* documents in one addDocuments call that reports progress
MaxPdfs == 2       \* PDF files one ingestion pass finds
MaxPages == 2      \* page sections extracted from one PDF
MaxPieces == 2     \* chunks the splitter cuts one page section into
MaxClock == 3      \* readings of Date.now() that name a thread or a message
MaxThreads == 2    \* threads the browser keeps

-----------------------------------------------------------------------------
(* Generic helpers *)

Min(a, b) == IF a < b THEN a ELSE b
Max(a, b) == IF a > b THEN a ELSE b

Range(s) == {s[i] : i \in 1..Len(s)}

SeqsUpTo(S, n) == UNION {[1..k -> S] : k \in 0..n}

\* Array.prototype.slice(0, end)
SliceFromZero(s, end) ==
  LET e == IF end < 0 THEN Max(Len(s) + end, 0) ELSE Min(end, Len(s))
  IN  SubSeq(s, 1, e)

-----------------------------------------------------------------------------
(* Scores: the real number dot / sqrt(nn) *)

Sgn(x) == IF x > 0 THEN 1 ELSE IF x < 0 THEN -1 ELSE 0

IsNaN(s) == s.nn = 0

\* sign(s) * s^2 * nn, so that s < t  iff  ScoreNum(s) * t.nn < ScoreNum(t) * s.nn
ScoreNum(s) == Sgn(s.dot) * s.dot * s.dot

ScoreLT(s, t) ==
  /\ ~IsNaN(s) /\ ~IsNaN(t)
  /\ ScoreNum(s) * t.nn < ScoreNum(t) * s.nn

ScoreGT(s, t) == ScoreLT(t, s)

ScoreGE(s, t) ==
  /\ ~IsNaN(s) /\ ~IsNaN(t)
  /\ ScoreNum(s) * t.nn >= ScoreNum(t) * s.nn

ScoreEq(s, t) == ScoreGE(s, t) /\ ScoreGE(t, s)

\* Array.prototype.sort((a, b) => b.key - a.key): stable, descending. A NaN
\* difference counts as 0 (the elements compare equal). The elements are
\* sorted as pairs <<key, element>>.
\* mutant: the comparator's operands swapped (a.key - b.key)
RECURSIVE InsertAsc(_, _)
InsertAsc(sorted, x) ==
  IF sorted = <<>> THEN <<x>>
  ELSE IF ScoreLT(x[1], Head(sorted)[1])
       THEN <<x>> \o sorted
       ELSE <<Head(sorted)>> \o InsertAsc(Tail(sorted), x)

RECURSIVE InsertDesc(_, _)
InsertDesc(sorted, x) ==
  IF sorted = <<>> THEN <<x>>
  ELSE IF ScoreGT(x[1], Head(sorted)[1])
       THEN <<x>> \o sorted
       ELSE <<Head(sorted)>> \o InsertDesc(Tail(sorted), x)

RECURSIVE SortPairsDesc(_, _)
SortPairsDesc(done, rest) ==
  IF rest = <<>> THEN done
  ELSE SortPairsDesc(InsertDesc(done, Head(rest)), Tail(rest))

\* claude.ts:386  similarities.sort((a, b) => b.similarity - a.similarity)
SortBySimilarity(s) ==
  LET pairs == [i \in 1..Len(s) |-> <<s[i].similarity, s[i]>>]
      sorted == SortPairsDesc(<<>>, pairs)
  IN  [i \in 1..Len(s) |-> sorted[i][2]]

\* rag.ts:149, 193  sort((a, b) => b.score - a.score)
SortByScore(s) ==
  LET pairs == [i \in 1..Len(s) |-> <<s[i].score, s[i]>>]
      sorted == SortPairsDesc(<<>>, pairs)
  IN  [i \in 1..Len(s) |-> sorted[i][2]]

-----------------------------------------------------------------------------
(* Vector store: cosine similarity and query *)

RECURSIVE Dot(_, _)
Dot(a, b) ==
  IF a = <<>> \/ b = <<>> THEN 0
  ELSE Head(a) * Head(b) + Dot(Tail(a), Tail(b))

Returned(v) == [ok |-> TRUE, value |-> v]
Thrown(msg) == [ok |-> FALSE, error |-> msg]

\* the chat runtime of the browser before any handler has run
\* (useDecodeRuntime.tsx:38-56)
IdleClient ==
  [pc |-> "idle",            \* idle, fetch (await fetch), reading (await reader.read())
   kind |-> "none",          \* the handler: onNew, onReload
   clock |-> 0,              \* Date.now()
   threadId |-> <<>>,        \* closure: currentThreadId of the handler's render
   messages |-> <<>>,        \* closure: messages of the handler's render
   parentId |-> <<>>,        \* onReload's argument
   userText |-> "",
   created |-> <<>>,         \* history: <<id of the thread sendMessage created>>
   assistantId |-> <<>>,
   assistantContent |-> <<>>,
   sources |-> <<>>,
   request |-> <<>>,         \* <<the body sent to /api/chat>>
   frames |-> <<>>]          \* the frames of the response not yet read

\* mutant: no length check, the loop runs over the shorter vector
cosineSimilarityUnchecked(a, b) ==
  Returned([dot |-> Dot(a, b),
            nn |-> Dot(SubSeq(a, 1, Min(Len(a), Len(b))), SubSeq(a, 1, Min(Len(a), Len(b))))
                   * Dot(SubSeq(b, 1, Min(Len(a), Len(b))), SubSeq(b, 1, Min(Len(a), Len(b))))])

cosineSimilarity(a, b) ==
  IF Len(a) # Len(b) THEN Thrown("Vectors must have the same length")
  ELSE Returned([dot |-> Dot(a, b), nn |-> Dot(a, a) * Dot(b, b)])

\* the components of the vectors cosineSimilarity is applied to on its own
Coordinates == -1..2

VectorDomain == SeqsUpTo(Coordinates, MaxDim)

InitCosine ==
  /\ vectorStore = <<>>
  /\ disk = <<>>
  /\ saved = <<>>
  /\ lastOp = [op |-> "start"]
  /\ loaded = FALSE
  /\ purged = {}
  /\ \E a \in VectorDomain, b \in VectorDomain :
       input = [fn |-> "cosineSimilarity", a |-> a, b |-> b]
  /\ output = <<>>
  /\ run = <<>>
  /\ live = {}
  /\ mutations = 0
  /\ threads = <<>>
  /\ currentThreadId = <<>>
  /\ client = IdleClient

ApplyCosineSimilarity ==
  /\ input.fn = "cosineSimilarity"
  /\ output = <<>>
  /\ output' = <<cosineSimilarity(input.a, input.b)>>
  /\ UNCHANGED <<vectorStore, disk, lastOp, loaded, purged, saved, input, run, live, mutations, threads, currentThreadId, client>>

NextCosine ==
  \/ ApplyCosineSimilarity

SpecCosine == InitCosine /\ [][NextCosine]_vars

\* mutant: an empty store is an error
EmptyResultThrown == Thrown("Vector store is empty")

\* claude.ts:374
EmptyResult == Returned([documents |-> <<>>, scores |-> <<>>, metadatas |-> <<>>])

queryVectorStore(store, queryEmbedding, topK) ==
  IF Len(store) = 0
  THEN EmptyResult
  ELSE
    LET cos == [i \in 1..Len(store) |->
                  cosineSimilarity(queryEmbedding, store[i].embedding)]
    IN  IF \E i \in 1..Len(store) : ~cos[i].ok
        THEN Thrown("Vectors must have the same length")
        ELSE
          LET similarities == [i \in 1..Len(store) |->
                                 [index |-> i - 1,
                                  similarity |-> cos[i].value,
                                  content |-> store[i].content,
                                  metadata |-> store[i].metadata]]
              topResults == SliceFromZero(SortBySimilarity(similarities), topK)
          IN  Returned([documents |-> [i \in 1..Len(topResults) |-> topResults[i].content],
                        scores    |-> [i \in 1..Len(topResults) |-> topResults[i].similarity],
                        metadatas |-> [i \in 1..Len(topResults) |-> topResults[i].metadata]])

-----------------------------------------------------------------------------
(* Requests: the locals of one answerQuestion call and of the tool loop *)

RunIds == {1, 2}

IdleRun ==
  [pc |-> "idle",                \* idle, loop, tool, toolTrack, done, failed
   kind |-> "none",              \* answerQuestion, answerQuestionStreaming, direct
   question |-> "",
   conversationHistory |-> <<>>,
   messages |-> <<>>,            \* the messages argument of the tool loop
   maxIterations |-> 0,
   iterationCount |-> 0,
   conversationMessages |-> <<>>,
   pending |-> <<>>,             \* toolUseBlocks not yet executed
   toolResults |-> <<>>,
   additionalContext |-> <<>>,   \* toolHandler: what searchManualForContext returned
   searched |-> <<>>,            \* history: <<the collection that search was made on>>
   selectedChunks |-> <<>>,
   tokensEstimate |-> 0,
   allChunksUsed |-> <<>>,
   llmCalls |-> <<>>,            \* history: the client.messages.create calls made
   toolCalls |-> 0,              \* history: the tool_use blocks received
   embedded |-> FALSE,           \* history: generateEmbedding has been called
   queried |-> FALSE,            \* history: queryVectorStore has been called
   request |-> <<>>,             \* <<the body POST /chat received>>
   emptyResponses |-> 0,         \* history: the responses with neither text nor tool_use
   answer |-> <<>>,              \* <<what the tool loop returned>>
   result |-> <<>>]              \* <<Returned(v)>> or <<Thrown(e)>> once over

NoRuns == [r \in RunIds |-> IdleRun]

-----------------------------------------------------------------------------
(* Vector store: the records of the model *)

Meta(source, page, chunkIndex, length) ==
  [source |-> source, page |-> page, chunkIndex |-> chunkIndex, length |-> length]

RecA == [content |-> "aaaa", embedding |-> <<1, 0>>,
         metadata |-> Meta(<<"manual.pdf">>, <<10>>, <<0>>, <<4>>)]
RecB == [content |-> "bbbbbbbb", embedding |-> <<1, 1>>,
         metadata |-> Meta(<<"manual.pdf">>, <<10>>, <<1>>, <<8>>)]
RecC == [content |-> "cccc", embedding |-> <<-1, 4>>,
         metadata |-> Meta(<<"rules.pdf">>, <<2>>, <<2>>, <<4>>)]
\* a record embedded by a model of another dimension
RecD == [content |-> "dddd", embedding |-> <<1>>,
         metadata |-> Meta(<<"old.pdf">>, <<1>>, <<3>>, <<4>>)]

\* a chunk of 16 characters: 4 tokens, more than MAX_CONTEXT_TOKENS
RecE == [content |-> "eeeeeeeeeeeeeeee", embedding |-> <<1, 0>>,
         metadata |-> Meta(<<"manual.pdf">>, <<11>>, <<4>>, <<16>>)]

\* the records the store calls are fed
Corpus == {RecA, RecC, RecD}

QueryEmbeddings == {<<1, 0>>, <<0, 1>>, <<1>>, <<>>}

-----------------------------------------------------------------------------
(* Vector store: the JSON snapshot *)

MetaKeys == {"source", "page", "chunkIndex", "length"}

\* JSON.stringify of an object: a key whose value is undefined is left out;
\* a number is written as itself
JsonOfMeta(m) ==
  [k \in {k \in MetaKeys : m[k] # <<>>} |->
     IF k = "source" THEN m[k] ELSE m[k][1]]

\* mutant: the metadata is not written
JsonOfRecordNoMetadata(r) ==
  [content |-> r.content,
   embedding |-> [i \in 1..Len(r.embedding) |-> r.embedding[i]],
   metadata |-> JsonOfMeta(Meta(<<>>, <<>>, <<>>, <<>>))]

JsonOfRecord(r) ==
  [content |-> r.content,
   embedding |-> [i \in 1..Len(r.embedding) |-> r.embedding[i]],
   metadata |-> JsonOfMeta(r.metadata)]

\* JSON.parse: the object holds the keys written; reading any other key
\* gives undefined
MetaOfJson(j) ==
  [k \in MetaKeys |->
     IF k \in DOMAIN j
     THEN (IF k = "source" THEN j[k] ELSE <<j[k]>>)
     ELSE <<>>]

RecordOfJson(j) ==
  [content |-> j.content, embedding |-> j.embedding, metadata |-> MetaOfJson(j.metadata)]

\* claude.ts:400-404, 412: the data written by saveVectorStore
saveVectorStore(store) ==
  [vectors |-> [i \in 1..Len(store) |-> JsonOfRecord(store[i])],
   saved |-> "now",
   count |-> Len(store)]

\* files at VECTOR_STORE_PATH that saveVectorStore did not write: text that is
\* no JSON (a truncated write), the JSON value null, and a JSON object without
\* the key "vectors"
NotJsonFile == [text |-> "{ vectors: [tru"]
NullFile == [json |-> "null"]
NoVectorsFile == [saved |-> "now"]

MalformedFiles == {NotJsonFile, NullFile, NoVectorsFile}

\* claude.ts:316, 424: JSON.parse(fs.readFileSync(...)) of the file
JsonParse(file) ==
  IF "text" \in DOMAIN file THEN Thrown("SyntaxError: Unexpected token")
  ELSE Returned(file)

\* reading a property of the parsed value: null has none
IsNull(data) == "json" \in DOMAIN data

\* claude.ts:317: data.vectors || []
VectorsOfData(data) ==
  IF "vectors" \in DOMAIN data
  THEN [i \in 1..Len(data.vectors) |-> RecordOfJson(data.vectors[i])]
  ELSE <<>>

\* claude.ts:309-322. The result: the collection returned (and kept in
\* vectorStore), whether the snapshot was read, and <<the error thrown>>.
getVectorStore(store, dsk) ==
  IF Len(store) > 0 THEN [store |-> store, readDisk |-> FALSE, thrown |-> <<>>]
  ELSE IF dsk # <<>>
       THEN LET data == JsonParse(dsk[1])
            IN  IF ~data.ok
                THEN [store |-> store, readDisk |-> TRUE, thrown |-> <<data.error>>]
                ELSE IF IsNull(data.value)
                THEN [store |-> store, readDisk |-> TRUE,
                      thrown |-> <<"TypeError: Cannot read properties of null">>]
                ELSE [store |-> VectorsOfData(data.value), readDisk |-> TRUE,
                      thrown |-> <<>>]
       ELSE [store |-> store, readDisk |-> FALSE, thrown |-> <<>>]

createVectorStore == <<>>

\* mutant: the new records are put in front of the collection
addDocumentsUnshift(store, batch) ==
  [i \in 1..Len(batch) |->
     [content |-> batch[i].content,
      embedding |-> batch[i].embedding,
      metadata |-> batch[i].metadata]] \o store

\* claude.ts:345-350: one record pushed per document
addDocuments(store, batch) ==
  store \o [i \in 1..Len(batch) |->
              [content |-> batch[i].content,
               embedding |-> batch[i].embedding,
               metadata |-> batch[i].metadata]]

\* claude.ts:418-440; count is data.count || data.vectors?.length || 0
getVectorStoreStats(store, dsk) ==
  IF dsk # <<>>
  THEN LET data == JsonParse(dsk[1])
       IN  IF ~data.ok THEN data
           ELSE IF IsNull(data.value)
           THEN Thrown("TypeError: Cannot read properties of null")
           ELSE Returned(
                  [exists |-> TRUE,
                   count |-> IF "count" \in DOMAIN data.value /\ data.value.count # 0
                             THEN data.value.count
                             ELSE IF "vectors" \in DOMAIN data.value
                             THEN Len(data.value.vectors)
                             ELSE 0])
  ELSE IF Len(store) > 0
       THEN Returned([exists |-> TRUE, count |-> Len(store)])
       ELSE Returned([exists |-> FALSE, count |-> 0])

-----------------------------------------------------------------------------
(* Vector store: the calls a process makes *)

Stores == SeqsUpTo(Corpus, MaxStore)

\* A process starts with an empty collection (claude.ts:304); the snapshot, if
\* any, was written by saveVectorStore in an earlier process (the ingestion
\* script), or the file is one that saveVectorStore did not write.
InitStore ==
  /\ vectorStore = <<>>
  /\ \/ \E prior \in {<<>>} \cup {<<s>> : s \in Stores} :
          /\ saved = prior
          /\ disk = IF prior = <<>> THEN <<>> ELSE <<saveVectorStore(prior[1])>>
     \/ \E file \in MalformedFiles :
          /\ saved = <<>>
          /\ disk = <<file>>
  /\ lastOp = [op |-> "start"]
  /\ loaded = FALSE
  /\ purged = {}
  /\ input = <<>>
  /\ output = <<>>
  /\ run = NoRuns
  /\ live = {}
  /\ mutations = 0
  /\ threads = <<>>
  /\ currentThreadId = <<>>
  /\ client = IdleClient

CallGetVectorStore ==
  LET r == getVectorStore(vectorStore, disk)
  IN  /\ vectorStore' = r.store
      /\ lastOp' = [op |-> "getVectorStore", repeat |-> loaded,
                    readDisk |-> r.readDisk, before |-> vectorStore,
                    result |-> r.store, thrown |-> r.thrown]
      /\ loaded' = (loaded \/ r.thrown = <<>>)
      /\ UNCHANGED <<disk, purged, saved, input, output, run, live, mutations, threads, currentThreadId, client>>

CallCreateVectorStore ==
  /\ vectorStore' = createVectorStore
  /\ purged' = purged \cup Range(vectorStore)
  /\ lastOp' = [op |-> "createVectorStore"]
  /\ UNCHANGED <<disk, loaded, saved, input, output, run, live, mutations, threads, currentThreadId, client>>

CallAddDocuments ==
  \E batch \in SeqsUpTo(Corpus, MaxBatch) :
    /\ Len(vectorStore) + Len(batch) <= MaxStore
    /\ vectorStore' = addDocuments(vectorStore, batch)
    /\ purged' = purged \ Range(batch)
    /\ lastOp' = [op |-> "addDocuments"]
    /\ UNCHANGED <<disk, loaded, saved, input, output, run, live, mutations, threads, currentThreadId, client>>

CallQueryVectorStore ==
  \E q \in QueryEmbeddings, k \in 0..MaxK :
    /\ lastOp' = [op |-> "queryVectorStore", queryEmbedding |-> q, topK |-> k,
                  result |-> queryVectorStore(vectorStore, q, k)]
    /\ UNCHANGED <<vectorStore, disk, loaded, purged, saved, input, output, run, live, mutations, threads, currentThreadId, client>>

CallSaveVectorStore ==
  /\ disk' = <<saveVectorStore(vectorStore)>>
  /\ saved' = <<vectorStore>>
  /\ lastOp' = [op |-> "saveVectorStore"]
  /\ UNCHANGED <<vectorStore, loaded, purged, input, output, run, live, mutations, threads, currentThreadId, client>>

CallGetVectorStoreStats ==
  /\ lastOp' = [op |-> "getVectorStoreStats",
                result |-> getVectorStoreStats(vectorStore, disk)]
  /\ UNCHANGED <<vectorStore, disk, loaded, purged, saved, input, output, run, live, mutations, threads, currentThreadId, client>>

\* a new process of the same deployment: module state is initialised again,
\* the file stays
ProcessStart ==
  /\ vectorStore' = <<>>
  /\ loaded' = FALSE
  /\ purged' = {}
  /\ lastOp' = [op |-> "start"]
  /\ UNCHANGED <<disk, saved, input, output, run, live, mutations, threads, currentThreadId, client>>

NextStore ==
  \/ CallGetVectorStore
  \/ CallCreateVectorStore
  \/ CallAddDocuments
  \/ CallQueryVectorStore
  \/ CallSaveVectorStore
  \/ CallGetVectorStoreStats
  \/ ProcessStart

SpecStore == InitStore /\ [][NextStore]_vars

-----------------------------------------------------------------------------
(* Vector store: addDocuments with a progress callback, one loop iteration
   per step (claude.ts:334-360) *)

\* claude.ts:351: the callback is due after every 100th record
PROGRESS_EVERY == 100

\* the three parallel arrays of a call with n documents
IngestRecords(n) == [i \in 1..n |-> IF i % 2 = 1 THEN RecA ELSE RecC]

\* what one invocation of onProgress is given, and the collection as it
\* stands when the callback runs
ProgressCall(added, total, store) ==
  [added |-> added, total |-> total, length |-> Len(store)]

\* mutant: the callback is due before every 100th record
OnProgressDueBefore(i) == i % PROGRESS_EVERY = 0

\* claude.ts:351: (i + 1) % 100 === 0
OnProgressDue(i) == (i + 1) % PROGRESS_EVERY = 0

InitIngest ==
  /\ \E before \in {<<>>, <<RecD>>} :
       /\ vectorStore = before
       /\ \E n \in 0..MaxDocs, onProgress \in BOOLEAN :
            input = [fn |-> "addDocuments",
                     documents |-> [i \in 1..n |-> IngestRecords(n)[i].content],
                     embeddings |-> [i \in 1..n |-> IngestRecords(n)[i].embedding],
                     metadatas |-> [i \in 1..n |-> IngestRecords(n)[i].metadata],
                     onProgress |-> onProgress,
                     before |-> before]
  /\ disk = <<>>
  /\ saved = <<>>
  /\ lastOp = [op |-> "addDocuments", pc |-> "loop", i |-> 0]
  /\ loaded = FALSE
  /\ purged = {}
  /\ output = <<>>
  /\ run = <<>>
  /\ live = {}
  /\ mutations = 0
  /\ threads = <<>>
  /\ currentThreadId = <<>>
  /\ client = IdleClient

\* claude.ts:344-354: one iteration of the loop
AddDocumentsPush ==
  /\ lastOp.pc = "loop"
  /\ lastOp.i < Len(input.documents)
  /\ LET i == lastOp.i
         pushed == Append(vectorStore,
                          [content |-> input.documents[i + 1],
                           embedding |-> input.embeddings[i + 1],
                           metadata |-> input.metadatas[i + 1]])
     IN  /\ vectorStore' = pushed
         /\ output' = IF input.onProgress /\ OnProgressDue(i)
                       THEN Append(output,
                                   ProgressCall(i + 1, Len(input.documents), pushed))
                       ELSE output
         /\ lastOp' = [lastOp EXCEPT !.i = i + 1]
  /\ UNCHANGED <<disk, loaded, purged, saved, input, run, live, mutations, threads, currentThreadId, client>>

\* claude.ts:344, 357-359: the loop is left and the completion is reported
AddDocumentsComplete ==
  /\ lastOp.pc = "loop"
  /\ ~(lastOp.i < Len(input.documents))
  /\ output' = IF input.onProgress
                THEN Append(output,
                            ProgressCall(Len(input.documents), Len(input.documents),
                                         vectorStore))
                ELSE output
  /\ lastOp' = [lastOp EXCEPT !.pc = "done"]
  /\ UNCHANGED <<vectorStore, disk, loaded, purged, saved, input, run, live, mutations, threads, currentThreadId, client>>

NextIngest ==
  \/ AddDocumentsPush
  \/ AddDocumentsComplete

SpecIngest == InitIngest /\ [][NextIngest]_vars

-----------------------------------------------------------------------------
(* Ingestion script: main, chunkText, storeInVectorDB (src/unnamed/part_001) *)

\* the files findPDFs returns, in directory order
PdfNames == <<"game-manual.pdf", "rules.pdf", "field.pdf", "qa.pdf">>

\* a PDF as the script sees it: for each page section extractTextWithPages
\* yields, the number of chunks splitter.splitText cuts its text into
Pdfs == SeqsUpTo(1..MaxPieces, MaxPages)

\* part_001:145-191: the sections are numbered from 1 and carry the file name
extractTextWithPages(pdf, source) ==
  [p \in 1..Len(pdf) |-> [pieces |-> pdf[p], page |-> p, source |-> source]]

\* part_001:214-227: totalChunkIndex is a local of chunkText, counted on over
\* the pages of the one PDF the call is given
RECURSIVE ChunkPages(_, _)
ChunkPages(pageTexts, totalChunkIndex) ==
  IF pageTexts = <<>> THEN <<>>
  ELSE [j \in 1..pageTexts[1].pieces |->
          [text |-> "text",
           page |-> pageTexts[1].page,
           chunkIndex |-> totalChunkIndex + j - 1,
           source |-> pageTexts[1].source]]
       \o ChunkPages(Tail(pageTexts), totalChunkIndex + pageTexts[1].pieces)

\* part_001:197-231
chunkText(pageTexts) == ChunkPages(pageTexts, 0)

\* part_001:236-276 and 292-310: the records storeInVectorDB hands to
\* addDocuments
IngestedRecords(chunks) ==
  [i \in 1..Len(chunks) |->
     [content |-> chunks[i].text,
      embedding |-> <<1, 0>>,
      metadata |-> Meta(<<chunks[i].source>>, <<chunks[i].page>>,
                        <<chunks[i].chunkIndex>>, <<Len(chunks[i].text)>>)]]

\* the ingestion script runs in a process of its own; the directory holds at
\* least one PDF (findPDFs throws otherwise)
InitScript ==
  /\ vectorStore = <<>>
  /\ disk = <<>>
  /\ saved = <<>>
  /\ lastOp = [op |-> "main", pc |-> "pdfs", next |-> 1]
  /\ loaded = FALSE
  /\ purged = {}
  /\ \E n \in 1..MaxPdfs : \E pdfs \in [1..n -> Pdfs] :
       input = [fn |-> "main", pdfs |-> pdfs]
  /\ output = <<>>
  /\ run = <<>>
  /\ live = {}
  /\ mutations = 0
  /\ threads = <<>>
  /\ currentThreadId = <<>>
  /\ client = IdleClient

\* part_001:341-353: one PDF is loaded, split into sections and chunked;
\* output is allChunks
ProcessPdf ==
  /\ lastOp.op = "main" /\ lastOp.pc = "pdfs"
  /\ lastOp.next <= Len(input.pdfs)
  /\ output' = output \o chunkText(extractTextWithPages(input.pdfs[lastOp.next],
                                                        PdfNames[lastOp.next]))
  /\ lastOp' = [lastOp EXCEPT !.next = @ + 1]
  /\ UNCHANGED <<vectorStore, disk, loaded, purged, saved, input, run, live, mutations, threads, currentThreadId, client>>

\* part_001:361-364 and 282-316: createVectorStore, addDocuments,
\* saveVectorStore
StoreInVectorDB ==
  /\ lastOp.op = "main" /\ lastOp.pc = "pdfs"
  /\ lastOp.next > Len(input.pdfs)
  /\ LET store == addDocuments(createVectorStore, IngestedRecords(output))
     IN  /\ vectorStore' = store
         /\ disk' = <<saveVectorStore(store)>>
         /\ saved' = <<store>>
  /\ lastOp' = [lastOp EXCEPT !.pc = "done"]
  /\ UNCHANGED <<loaded, purged, input, output, run, live, mutations, threads, currentThreadId, client>>

NextScript ==
  \/ ProcessPdf
  \/ StoreInVectorDB

SpecScript == InitScript /\ [][NextScript]_vars

-----------------------------------------------------------------------------
(* Answer assembler: extractSources (rag.ts:171-194) *)

\* chunk.metadata.source || "Unknown": undefined and "" are falsy
SourceOrUnknown(m) ==
  IF m.source = <<>> \/ m.source = <<"">> THEN <<"Unknown">> ELSE m.source

\* chunk.metadata.page || 0
PageOrZero(m) == IF m.page = <<>> THEN 0 ELSE m.page[1]

\* `${source}:${page}`, as its ':'-separated segments
SourceKey(source, page) == source \o <<ToString(page)>>

MapIndex(map, key) ==
  IF \E i \in 1..Len(map) : map[i].key = key
  THEN CHOOSE i \in 1..Len(map) : map[i].key = key
  ELSE 0

\* mutant: the entry is overwritten without comparing the scores
SourceMapSetLast(map, chunk) ==
  LET source == SourceOrUnknown(chunk.metadata)
      page == PageOrZero(chunk.metadata)
      key == SourceKey(source, page)
      at == MapIndex(map, key)
      entry == [key |-> key, page |-> page, score |-> chunk.score]
  IN  IF at = 0 THEN Append(map, entry) ELSE [map EXCEPT ![at] = entry]

\* rag.ts:174-185: one pass of the loop over a Map kept in insertion order
SourceMapSet(map, chunk) ==
  LET source == SourceOrUnknown(chunk.metadata)
      page == PageOrZero(chunk.metadata)
      key == SourceKey(source, page)
      at == MapIndex(map, key)
      entry == [key |-> key, page |-> page, score |-> chunk.score]
  IN  IF at = 0 THEN Append(map, entry)
      ELSE IF ScoreGT(chunk.score, map[at].score)
           THEN [map EXCEPT ![at] = entry]
           ELSE map

RECURSIVE BuildSourceMap(_, _)
BuildSourceMap(map, chunks) ==
  IF chunks = <<>> THEN map
  ELSE BuildSourceMap(SourceMapSet(map, Head(chunks)), Tail(chunks))

\* rag.ts:187-193: key.split(":")[0] is the key's first segment
extractSources(chunks) ==
  LET map == BuildSourceMap(<<>>, chunks)
      entries == [i \in 1..Len(map) |->
                    [source |-> map[i].key[1],
                     page |-> map[i].page,
                     score |-> map[i].score]]
  IN  SortByScore(entries)

-----------------------------------------------------------------------------
(* The pure functions, applied to inputs drawn from bounded sets *)

ScoreDomain == {[dot |-> 1, nn |-> 1], [dot |-> 1, nn |-> 2], [dot |-> -1, nn |-> 17]}

SourceDomain == {<<>>, <<"manual.pdf">>, <<"C", "m.pdf">>, <<"C", "n.pdf">>}

PageDomain == {<<>>, <<10>>}

ChunkDomain ==
  {[text |-> "aaaa", score |-> sc, metadata |-> Meta(src, pg, <<0>>, <<4>>)] :
     sc \in ScoreDomain, src \in SourceDomain, pg \in PageDomain}

InitPure ==
  /\ \E chunks \in SeqsUpTo(ChunkDomain, MaxChunks) :
       input = [fn |-> "extractSources", chunks |-> chunks]
  /\ output = <<>>
  /\ vectorStore = <<>>
  /\ disk = <<>>
  /\ saved = <<>>
  /\ lastOp = [op |-> "start"]
  /\ loaded = FALSE
  /\ purged = {}
  /\ run = NoRuns
  /\ live = {}
  /\ mutations = 0
  /\ threads = <<>>
  /\ currentThreadId = <<>>
  /\ client = IdleClient

ApplyExtractSources ==
  /\ input.fn = "extractSources"
  /\ output = <<>>
  /\ output' = <<extractSources(input.chunks)>>
  /\ UNCHANGED <<input, vectorStore, disk, lastOp, loaded, purged, saved, run, live, mutations, threads, currentThreadId, client>>

NextPure ==
  \/ ApplyExtractSources

SpecPure == InitPure /\ [][NextPure]_vars

-----------------------------------------------------------------------------
(* RAG service: configuration, embedder, context selector (rag.ts) *)

TOP_K_RESULTS == 5

\* RAG_MIN_SCORE, default "0.3": the score 3 / sqrt(100)
MIN_SIMILARITY_SCORE == [dot |-> 3, nn |-> 100]

\* RAG_MAX_CONTEXT_TOKENS: the model runs with RAG_MAX_CONTEXT_TOKENS=3 in the
\* environment (the default is 3000), so that the texts of the model fill it
MAX_CONTEXT_TOKENS == 3

\* the topK the tool handler passes to searchManualForContext and queryVectorStore
TOOL_TOP_K == 5

\* { maxIterations: 3 } of answerQuestion and answerQuestionStreaming
RAG_MAX_ITERATIONS == 3

\* the embedding model: a text has one embedding, of the model's dimension
EmbedOf(text) == IF text = "q1" THEN <<1, 0>> ELSE <<0, 1>>

\* claude.ts:259-262  Math.ceil(text.length / 4)
estimateTokens(text) == (Len(text) + 3) \div 4

\* rag.ts:315-321: the three parallel arrays as RetrievedChunk[]
ChunksOf(results) ==
  [i \in 1..Len(results.documents) |->
     [text |-> results.documents[i],
      score |-> results.scores[i],
      metadata |-> results.metadatas[i]]]

AboveMinScore(chunk) == ScoreGE(chunk.score, MIN_SIMILARITY_SCORE)

\* mutant: a chunk that does not fit is skipped (continue for break)
RECURSIVE PackChunksSkipping(_, _, _, _)
PackChunksSkipping(selected, totalTokens, sorted, maxTokens) ==
  IF sorted = <<>> THEN selected
  ELSE LET chunkTokens == estimateTokens(Head(sorted).text)
       IN  IF totalTokens + chunkTokens <= maxTokens
           THEN PackChunksSkipping(Append(selected, Head(sorted)),
                                   totalTokens + chunkTokens, Tail(sorted), maxTokens)
           ELSE PackChunksSkipping(selected, totalTokens, Tail(sorted), maxTokens)

\* rag.ts:152-163: take chunks until one does not fit, then stop
RECURSIVE PackChunks(_, _, _, _)
PackChunks(selected, totalTokens, sorted, maxTokens) ==
  IF sorted = <<>> THEN selected
  ELSE LET chunkTokens == estimateTokens(Head(sorted).text)
       IN  IF totalTokens + chunkTokens <= maxTokens
           THEN PackChunks(Append(selected, Head(sorted)), totalTokens + chunkTokens,
                           Tail(sorted), maxTokens)
           ELSE selected

filterAndRankChunks(chunks, maxTokens) ==
  LET filtered == SelectSeq(chunks, AboveMinScore)
  IN  IF Len(filtered) = 0 THEN <<>>
      ELSE PackChunks(<<>>, 0, SortByScore(filtered), maxTokens)

\* filterAndRankChunks applied to chunk lists and budgets drawn from bounded
\* sets: texts of 0, 4, 5 and 9 characters, scores above, at and below 0.3
PackTexts == {"", "aaaa", "bbbbb", "ccccccccc"}

PackScores == {[dot |-> 1, nn |-> 1], [dot |-> 3, nn |-> 100], [dot |-> 1, nn |-> 17]}

PackChunkDomain ==
  {[text |-> t, score |-> sc, metadata |-> Meta(<<"manual.pdf">>, <<10>>, <<0>>, <<Len(t)>>)] :
     t \in PackTexts, sc \in PackScores}

InitPack ==
  /\ \E chunks \in SeqsUpTo(PackChunkDomain, MaxChunks), maxTokens \in 0..MaxBudget :
       input = [fn |-> "filterAndRankChunks", chunks |-> chunks, maxTokens |-> maxTokens]
  /\ output = <<>>
  /\ vectorStore = <<>>
  /\ disk = <<>>
  /\ saved = <<>>
  /\ lastOp = [op |-> "start"]
  /\ loaded = FALSE
  /\ purged = {}
  /\ run = NoRuns
  /\ live = {}
  /\ mutations = 0
  /\ threads = <<>>
  /\ currentThreadId = <<>>
  /\ client = IdleClient

ApplyFilterAndRankChunks ==
  /\ input.fn = "filterAndRankChunks"
  /\ output = <<>>
  /\ output' = <<filterAndRankChunks(input.chunks, input.maxTokens)>>
  /\ UNCHANGED <<input, vectorStore, disk, lastOp, loaded, purged, saved, run, live, mutations, threads, currentThreadId, client>>

NextPack ==
  \/ ApplyFilterAndRankChunks

SpecPack == InitPack /\ [][NextPack]_vars

\* mutant: a search that finds nothing throws
searchManualForContextStrict(store, query, topK, embedOk) ==
  IF ~embedOk THEN Thrown("embedding failed")
  ELSE
    LET results == queryVectorStore(store, EmbedOf(query), topK)
    IN  IF ~results.ok THEN results
        ELSE
          LET filtered == SelectSeq(ChunksOf(results.value), AboveMinScore)
          IN  IF Len(filtered) = 0
              THEN Thrown("No relevant content found")
              ELSE Returned([kind |-> "Additional context retrieved",
                             query |-> query, chunks |-> filtered])

\* rag.ts:200-250. embedOk: generateEmbedding returned. The text returned is
\* kept as what it is built from: its kind, the query and the chunks listed.
searchManualForContext(store, query, topK, embedOk) ==
  IF ~embedOk THEN Thrown("embedding failed")
  ELSE
    LET results == queryVectorStore(store, EmbedOf(query), topK)
    IN  IF ~results.ok THEN results
        ELSE IF Len(results.value.documents) = 0
        THEN Returned([kind |-> "No information found", query |-> query, chunks |-> <<>>])
        ELSE
          LET filtered == SelectSeq(ChunksOf(results.value), AboveMinScore)
          IN  IF Len(filtered) = 0
              THEN Returned([kind |-> "No highly relevant information found",
                             query |-> query, chunks |-> <<>>])
              ELSE Returned([kind |-> "Additional context retrieved",
                             query |-> query, chunks |-> filtered])

\* rag.ts:305-311, 341-347: the result returned when nothing relevant is found
NoInformationResult ==
  [answer |-> "I apologize, but I couldn't find any relevant information",
   sources |-> <<>>, contextsUsed |-> 0, tokensEstimate |-> 0]

-----------------------------------------------------------------------------
(* Messages and model responses *)

TextBlock(t) == [type |-> "text", text |-> t]

ToolUseBlock(id, name, query) ==
  [type |-> "tool_use", id |-> id, name |-> name, input |-> [query |-> query]]

\* claude.ts:152-156, 162-167 (is_error is absent, so false, on success)
ToolResultBlock(id, content, isError) ==
  [type |-> "tool_result", tool_use_id |-> id, content |-> content, is_error |-> isError]

\* a string content is the one text block it abbreviates
Message(role, content) == [role |-> role, content |-> content]

IsText(b) == b.type = "text"
IsToolUse(b) == b.type = "tool_use"
NotSystem(m) == m.role # "system"

\* rag.ts:50-103
SystemPrompt == TextBlock("system prompt with tool usage")

\* rag.ts:108-130: the prompt lists the contexts, then the question
UserPrompt(question, contexts) ==
  [type |-> "text", text |-> "Context from the FTC Decode Manual",
   contexts |-> contexts, question |-> question]

\* rag.ts:356-357, with the fixed text of both templates counted as one token each
PromptTokens(contexts) ==
  LET ctxTokens[i \in 0..Len(contexts)] ==
        IF i = 0 THEN 0 ELSE ctxTokens[i - 1] + estimateTokens(contexts[i].text)
  IN  1 + (1 + ctxTokens[Len(contexts)])

Questions == {"q1", "q2"}

Histories ==
  {<<>>, <<Message("user", <<TextBlock("earlier question")>>),
           Message("assistant", <<TextBlock("earlier answer")>>)>>}

\* what the model may ask for: the one tool defined, or a name it made up
ToolRequests ==
  {[name |-> "search_manual", query |-> "q1"],
   [name |-> "lookup_rule", query |-> "q1"]}

\* the text of the model's response to call callNo (longer than one piece of
\* the streamed answer)
AnswerText(callNo) ==
  "According to the manual, the answer given in the response to call number "
    \o ToString(callNo)

\* the content of the model's response to call callNo: text or none, then
\* the tool_use blocks, with ids unique in the run
ResponseContents(callNo, maxTools) ==
  {text \o [i \in 1..Len(reqs) |-> ToolUseBlock(<<callNo, i>>, reqs[i].name, reqs[i].query)] :
     text \in {<<>>, <<TextBlock(AnswerText(callNo))>>},
     reqs \in SeqsUpTo(ToolRequests, maxTools)}

StopReasons == {"end_turn", "tool_use"}

-----------------------------------------------------------------------------
(* The tool loop: generateChatCompletionWithTools (claude.ts:57-208) and its *)
(* caller answerQuestion / answerQuestionStreaming (rag.ts:280-428, 434-618) *)

\* rag.ts:598: characters per piece of the streamed answer
STREAM_CHUNK_SIZE == 50

\* answer.slice(from, to), kept as the text and its two cut points
Slice(text, from, to) == [text |-> text, from |-> from, to |-> Min(to, Len(text))]

\* rag.ts:596-605: the answer streamed in pieces of 50 characters
StreamOf(answer) ==
  [i \in 1..((Len(answer) + STREAM_CHUNK_SIZE - 1) \div STREAM_CHUNK_SIZE) |->
     Slice(answer, STREAM_CHUNK_SIZE * (i - 1), STREAM_CHUNK_SIZE * i)]

\* an exception leaves the tool loop and answerQuestion: neither catches
Fail(rn, msg) == [rn EXCEPT !.pc = "failed", !.result = <<Thrown(msg)>>]

\* mutant: nothing found is an exception
NoInformationThrown(rn) == Fail(rn, "No relevant chunks found")

\* rag.ts:301-312, 337-348 and 457-478, 503-524 (the stream is one piece)
NoInformation(rn) ==
  [rn EXCEPT !.pc = "done",
             !.result = <<Returned(
                IF rn.kind = "answerQuestionStreaming"
                THEN [stream |-> <<Slice(NoInformationResult.answer, 0,
                                             Len(NoInformationResult.answer))>>,
                      sources |-> <<>>, contextsUsed |-> 0, tokensEstimate |-> 0]
                ELSE NoInformationResult)>>]

\* claude.ts:115, 128, 202 return the text; rag.ts:417-427 and 607-617 build
\* the response from it
ReturnText(rn, text) ==
  [rn EXCEPT !.pc = "done",
             !.answer = <<text>>,
             !.result = <<Returned(
                IF rn.kind = "direct" THEN text
                ELSE IF rn.kind = "answerQuestionStreaming"
                THEN [stream |-> StreamOf(text),
                      sources |-> extractSources(rn.allChunksUsed),
                      contextsUsed |-> Len(rn.allChunksUsed),
                      tokensEstimate |-> rn.tokensEstimate]
                ELSE [answer |-> text,
                      sources |-> extractSources(rn.allChunksUsed),
                      contextsUsed |-> Len(rn.allChunksUsed),
                      tokensEstimate |-> rn.tokensEstimate])>>]

\* mutant: the system message stays in the conversation list
EnterLoopKeepsSystem(rn, messages, maxIterations, keyOk) ==
  IF ~keyOk THEN Fail(rn, "ANTHROPIC_API_KEY not found in environment variables")
  ELSE [rn EXCEPT !.pc = "loop",
                  !.messages = messages,
                  !.maxIterations = maxIterations,
                  !.iterationCount = 0,
                  !.conversationMessages = messages]

\* claude.ts:73-87. keyOk: ANTHROPIC_API_KEY is set (getClaudeClient)
EnterLoop(rn, messages, maxIterations, keyOk) ==
  IF ~keyOk THEN Fail(rn, "ANTHROPIC_API_KEY not found in environment variables")
  ELSE [rn EXCEPT !.pc = "loop",
                  !.messages = messages,
                  !.maxIterations = maxIterations,
                  !.iterationCount = 0,
                  !.conversationMessages = SelectSeq(messages, NotSystem)]

\* rag.ts:280-415 and 434-593: the call up to the first model call
AnswerQuestionCall(r, rn0, kind, question, history, embedOk, keyOk) ==
  LET got == getVectorStore(vectorStore, disk)
      store == got.store
      results == IF embedOk
                 THEN queryVectorStore(store, EmbedOf(question), TOP_K_RESULTS)
                 ELSE Thrown("embedding failed")
      selectedChunks == filterAndRankChunks(ChunksOf(results.value), MAX_CONTEXT_TOKENS)
      messages == <<Message("system", <<SystemPrompt>>)>> \o history
                    \o <<Message("user", <<UserPrompt(question, selectedChunks)>>)>>
      rn == [rn0 EXCEPT !.kind = kind, !.question = question,
                        !.conversationHistory = history,
                        !.embedded = (got.thrown = <<>>),
                        !.queried = (got.thrown = <<>> /\ embedOk)]
  IN  /\ vectorStore' = store
      /\ loaded' = (loaded \/ got.thrown = <<>>)
      /\ run' = [run EXCEPT ![r] =
           IF got.thrown # <<>> THEN Fail(rn, got.thrown[1])
           ELSE IF ~results.ok THEN Fail(rn, results.error)
           ELSE IF Len(results.value.documents) = 0 THEN NoInformation(rn)
           ELSE IF Len(selectedChunks) = 0 THEN NoInformation(rn)
           ELSE EnterLoop([rn EXCEPT !.selectedChunks = selectedChunks,
                                     !.tokensEstimate = PromptTokens(selectedChunks),
                                     !.allChunksUsed = selectedChunks],
                          messages, RAG_MAX_ITERATIONS, keyOk)]

\* a call of answerQuestion or answerQuestionStreaming
StartAnswerQuestion(r) ==
  /\ r \in live
  /\ run[r].pc = "idle"
  /\ \E kind \in {"answerQuestion", "answerQuestionStreaming"},
        question \in Questions, history \in Histories,
        embedOk \in BOOLEAN, keyOk \in BOOLEAN :
       AnswerQuestionCall(r, run[r], kind, question, history, embedOk, keyOk)
  /\ UNCHANGED <<disk, lastOp, purged, saved, input, output, live, mutations, threads, currentThreadId, client>>

\* another caller of the exported tool loop, with its own options and handler
StartDirect(r) ==
  /\ r \in live
  /\ run[r].pc = "idle"
  /\ \E maxIterations \in 0..MaxIterOpt, keyOk \in BOOLEAN :
       run' = [run EXCEPT ![r] =
                 EnterLoop([run[r] EXCEPT !.kind = "direct"],
                           <<Message("system", <<TextBlock("system")>>),
                             Message("user", <<TextBlock("question")>>)>>,
                           maxIterations, keyOk)]
  /\ UNCHANGED <<vectorStore, disk, lastOp, loaded, purged, saved, input, output, live, mutations, threads, currentThreadId, client>>

LoopContinuesOnceMore(rn) == rn.iterationCount <= rn.maxIterations

\* claude.ts:89
LoopContinues(rn) == rn.iterationCount < rn.maxIterations

IsSystem(m) == m.role = "system"

\* mutant: the conversation is one list of the module, that of the first request
CreateParamsShared(rn, withTools) ==
  [tools |-> withTools,
   system |-> SelectSeq(rn.messages, IsSystem),
   messages |-> run[1].conversationMessages]

CreateParamsWithTools(rn, withTools) ==
  [tools |-> TRUE,
   system |-> SelectSeq(rn.messages, IsSystem),
   messages |-> rn.conversationMessages]

\* claude.ts:93-100 (tools given) and 183-190 (no tools)
CreateParams(rn, withTools) ==
  [tools |-> withTools,
   system |-> SelectSeq(rn.messages, IsSystem),
   messages |-> rn.conversationMessages]

\* mutant: a response with nothing in it is an empty answer
OnEmptyResponseReturnsEmpty(rn) == ReturnText(rn, "")

\* claude.ts:130
OnEmptyResponse(rn) == Fail(rn, "No text content and no tool use in response")

\* claude.ts:111-137: what the loop does with a response
OnResponse(rn0, response) ==
  LET text == SelectSeq(response.content, IsText)
      toolUseBlocks == SelectSeq(response.content, IsToolUse)
      rn == [rn0 EXCEPT !.emptyResponses =
                          IF response.content = <<>> THEN @ + 1 ELSE @,
                        !.toolCalls = @ + Len(toolUseBlocks)]
  IN  IF response.stop_reason = "end_turn" /\ text # <<>>
      THEN ReturnText(rn, text[1].text)
      ELSE IF Len(toolUseBlocks) = 0
      THEN (IF text # <<>> THEN ReturnText(rn, text[1].text)
            ELSE OnEmptyResponse(rn))
      ELSE [rn EXCEPT !.conversationMessages =
                         Append(@, Message("assistant", response.content)),
                      !.pending = toolUseBlocks,
                      !.toolResults = <<>>,
                      !.pc = "tool"]

\* the tool_use blocks the runs of the set have been sent
RECURSIVE ToolCallsOf(_)
ToolCallsOf(rs) ==
  IF rs = {} THEN 0
  ELSE LET r == CHOOSE x \in rs : TRUE
       IN  run[r].toolCalls + ToolCallsOf(rs \ {r})

\* claude.ts:89-100: one pass of the while loop up to the response
CallModelWithTools(r) ==
  /\ run[r].pc = "loop"
  /\ LoopContinues(run[r])
  /\ LET rn == [run[r] EXCEPT
                  !.iterationCount = @ + 1,
                  !.llmCalls = Append(@, CreateParams(run[r], TRUE))]
         callNo == Len(rn.llmCalls)
     IN  \/ run' = [run EXCEPT ![r] = Fail(rn, "API error")]
         \/ \E stop \in StopReasons,
               content \in ResponseContents(callNo,
                              Min(MaxToolUses, MaxToolCalls - ToolCallsOf(live))) :
              run' = [run EXCEPT ![r] =
                        OnResponse(rn, [stop_reason |-> stop, content |-> content])]
  /\ UNCHANGED <<vectorStore, disk, lastOp, loaded, purged, saved, input, output, live, mutations, threads, currentThreadId, client>>

\* mutant: a final response without text is answered with the standard message
OnFinalNoTextApologises(rn) == NoInformation(rn)

\* claude.ts:205-207
OnFinalNoText(rn) ==
  Fail(rn, "Failed to get text response after max iterations and final attempt")

\* claude.ts:178-207: the call without tools after the loop
CallModelFinal(r) ==
  /\ run[r].pc = "loop"
  /\ ~LoopContinues(run[r])
  /\ LET rn == [run[r] EXCEPT !.llmCalls = Append(@, CreateParams(run[r], FALSE))]
         callNo == Len(rn.llmCalls)
     IN  \/ run' = [run EXCEPT ![r] = Fail(rn, "API error")]
         \/ run' = [run EXCEPT ![r] =
                      ReturnText(rn, AnswerText(callNo))]
         \/ run' = [run EXCEPT ![r] =
                      OnFinalNoText([rn EXCEPT !.emptyResponses = @ + 1])]
  /\ UNCHANGED <<vectorStore, disk, lastOp, loaded, purged, saved, input, output, live, mutations, threads, currentThreadId, client>>

AddToolResultFirst(toolResults, block) == <<block>> \o toolResults

\* claude.ts:152, 162: toolResults.push
AddToolResult(toolResults, block) == Append(toolResults, block)

\* mutant: the loop works on the caller's array, so that the turn with the
\* tool results is appended to it as well
PushToolResultIntoMessages(rn, block) ==
  LET toolResults == AddToolResult(rn.toolResults, block)
      rest == Tail(rn.pending)
  IN  IF rest # <<>>
      THEN [rn EXCEPT !.toolResults = toolResults, !.pending = rest,
                      !.additionalContext = <<>>, !.pc = "tool"]
      ELSE [rn EXCEPT !.toolResults = toolResults, !.pending = rest,
                      !.additionalContext = <<>>,
                      !.conversationMessages = Append(@, Message("user", toolResults)),
                      !.messages = Append(@, Message("user", toolResults)),
                      !.pc = "loop"]

\* claude.ts:152-156 or 162-167, then 171-175 after the last tool of the round
PushToolResult(rn, block) ==
  LET toolResults == AddToolResult(rn.toolResults, block)
      rest == Tail(rn.pending)
  IN  IF rest # <<>>
      THEN [rn EXCEPT !.toolResults = toolResults, !.pending = rest,
                      !.additionalContext = <<>>, !.pc = "tool"]
      ELSE [rn EXCEPT !.toolResults = toolResults, !.pending = rest,
                      !.additionalContext = <<>>,
                      !.conversationMessages = Append(@, Message("user", toolResults)),
                      !.pc = "loop"]

\* claude.ts:165: `Error: ${errorMessage}`
ToolError(toolUse, msg) ==
  ToolResultBlock(toolUse.id, [kind |-> "Error", message |-> msg], TRUE)

RethrowToolFailure(rn, toolUse, msg) == Fail(rn, msg)

\* claude.ts:158-168
CatchToolFailure(rn, toolUse, msg) == PushToolResult(rn, ToolError(toolUse, msg))

\* claude.ts:141-168 with the toolHandler of rag.ts:381-408 up to the return of
\* searchManualForContext; a direct caller's handler returns or throws
ExecuteTool(r) ==
  /\ run[r].pc = "tool"
  /\ LET rn == run[r]
         toolUse == Head(rn.pending)
     IN  IF rn.kind = "direct"
         THEN \E handlerOk \in BOOLEAN :
                run' = [run EXCEPT ![r] =
                  IF handlerOk
                  THEN PushToolResult(rn, ToolResultBlock(toolUse.id, [kind |-> "tool output"], FALSE))
                  ELSE CatchToolFailure(rn, toolUse, "tool failed")]
         ELSE IF toolUse.name = "search_manual"
         THEN \E embedOk \in BOOLEAN :
                LET found == searchManualForContext(vectorStore, toolUse.input.query,
                                                    TOOL_TOP_K, embedOk)
                    counted == [rn EXCEPT !.embedded = TRUE,
                                          !.queried = (@ \/ embedOk)]
                IN  run' = [run EXCEPT ![r] =
                      IF found.ok
                      THEN [counted EXCEPT !.additionalContext = <<found.value>>,
                                           !.searched = <<vectorStore>>,
                                           !.pc = "toolTrack"]
                      ELSE CatchToolFailure(counted, toolUse, found.error)]
         ELSE run' = [run EXCEPT ![r] =
                 CatchToolFailure(rn, toolUse, "Unknown tool")]
  /\ UNCHANGED <<vectorStore, disk, lastOp, loaded, purged, saved, input, output, live, mutations, threads, currentThreadId, client>>

\* mutant: the chunks of a tool round are not recorded
TrackChunksNever(allChunksUsed, results) == allChunksUsed

\* rag.ts:394-404
TrackChunks(allChunksUsed, results) ==
  IF Len(results.documents) > 0
  THEN allChunksUsed \o ChunksOf(results)
  ELSE allChunksUsed

\* rag.ts:391-405: the handler embeds and queries once more to record the chunks
TrackToolChunks(r) ==
  /\ run[r].pc = "toolTrack"
  /\ \E embedOk \in BOOLEAN :
       LET rn == [run[r] EXCEPT !.embedded = TRUE,
                                !.queried = (@ \/ embedOk),
                                !.searched = <<>>]
           toolUse == Head(rn.pending)
           results == IF embedOk
                      THEN queryVectorStore(vectorStore, EmbedOf(toolUse.input.query), TOOL_TOP_K)
                      ELSE Thrown("embedding failed")
       IN  run' = [run EXCEPT ![r] =
             IF ~results.ok THEN CatchToolFailure(rn, toolUse, results.error)
             ELSE PushToolResult(
                    [rn EXCEPT !.allChunksUsed = TrackChunks(@, results.value)],
                    ToolResultBlock(toolUse.id, rn.additionalContext[1], FALSE))]
  /\ UNCHANGED <<vectorStore, disk, lastOp, loaded, purged, saved, input, output, live, mutations, threads, currentThreadId, client>>

-----------------------------------------------------------------------------
(* The route POST /chat (src/unnamed/part_006)                              *)

\* part_006:30: the longest question accepted
MAX_QUESTION_LENGTH == 1000

\* a value of the body's question field. A string is kept as its parts: so
\* many white-space characters, then a text without white space at its ends,
\* then so many more characters that are not white space
JsValue(type, blanks, text, more) ==
  [type |-> type, blanks |-> blanks, text |-> text, more |-> more]

Undefined == JsValue("undefined", 0, "", 0)

\* String.prototype.length
StrLength(v) == v.blanks + Len(v.text) + v.more

\* String.prototype.trim, then length
TrimLength(v) == Len(v.text) + v.more

\* the text a string value stands for, without its filling characters
TextOf(v) == v.text

\* part_006:10: !question
Falsy(v) == v.type = "undefined" \/ (v.type = "string" /\ StrLength(v) = 0)

\* mutant: a question of exactly the maximum length is too long
ValidationErrorStrict(body) ==
  LET question == body.question
  IN  IF Falsy(question) \/ question.type # "string"
      THEN <<"Field 'question' is required and must be a string">>
      ELSE IF TrimLength(question) = 0
      THEN <<"Question cannot be empty">>
      ELSE IF StrLength(question) >= MAX_QUESTION_LENGTH
      THEN <<"Question is too long (max 1000 characters)">>
      ELSE <<>>

\* part_006:10-38: the message of the 400 response, if the question is refused
ValidationError(body) ==
  LET question == body.question
  IN  IF Falsy(question) \/ question.type # "string"
      THEN <<"Field 'question' is required and must be a string">>
      ELSE IF TrimLength(question) = 0
      THEN <<"Question cannot be empty">>
      ELSE IF StrLength(question) > MAX_QUESTION_LENGTH
      THEN <<"Question is too long (max 1000 characters)">>
      ELSE <<>>

\* the question fields a client may post
BodyQuestions ==
  {Undefined,
   JsValue("number", 0, "", 0),
   JsValue("string", 0, "", 0),
   JsValue("string", 3, "", 0),
   JsValue("string", 0, "q1", 0),
   JsValue("string", 0, "q2", MAX_QUESTION_LENGTH - 2),
   JsValue("string", 0, "q1", MAX_QUESTION_LENGTH - 1)}

\* part_006:6-7: what req.json() gives, with the defaults of the destructuring
Body(json, question, conversationHistory, stream) ==
  [json |-> json, question |-> question,
   conversationHistory |-> conversationHistory, stream |-> stream]

\* the bodies a client may post: objects, the JSON null, and text that is not JSON
Bodies ==
  {Body("object", q, h, st) : q \in BodyQuestions, h \in Histories, st \in BOOLEAN}
    \cup {Body("null", Undefined, <<>>, FALSE), Body("not json", Undefined, <<>>, FALSE)}

\* part_006:6-7: req.json() or the destructuring of null throws
BodyError(body) ==
  IF body.json = "not json" THEN <<"Unexpected token in JSON">>
  ELSE IF body.json = "null" THEN <<"Cannot destructure property 'question' of 'body'">>
  ELSE <<>>

\* String.prototype.includes on the messages thrown in this model: only the
\* message of getClaudeClient (claude.ts:27-29) contains one of the two texts
\* the route looks for
Includes(msg, part) ==
  <<msg, part>> \in
    {<<"ANTHROPIC_API_KEY not found in environment variables", "ANTHROPIC_API_KEY">>}

\* part_006:155-197: the outer catch
CatchResponse(msg) ==
  IF Includes(msg, "ANTHROPIC_API_KEY")
  THEN [status |-> 500, error |-> "Configuration Error",
        message |-> "Anthropic API key not configured. Please set ANTHROPIC_API_KEY in .env"]
  ELSE IF Includes(msg, "No relevant content")
  THEN [status |-> 404, error |-> "Not Found",
        message |-> "Could not find relevant information in the manual"]
  ELSE [status |-> 500, error |-> "Internal Server Error", message |-> msg]

\* part_006:73: chunk.delta?.text is not empty
HasText(piece) == piece.to > piece.from

\* part_006:75-82
ContentFrame(piece) == [type |-> "content", content |-> piece]

\* part_006:59-68
MetadataFrame(result) ==
  [type |-> "metadata", sources |-> result.sources,
   contextsUsed |-> result.contextsUsed, tokensEstimate |-> result.tokensEstimate]

\* part_006:90-99, without the duration
DoneFrame == [type |-> "done"]

\* mutant: the metadata frame is sent when the answer has been sent
StreamFramesMetadataLast(result) ==
  LET pieces == SelectSeq(result.stream, HasText)
  IN  [i \in 1..Len(pieces) |-> ContentFrame(pieces[i])]
        \o <<MetadataFrame(result)>> \o <<DoneFrame>>

\* part_006:56-101: the frames start() enqueues, in order, before it closes
\* the stream. Nothing between the first enqueue and close() throws, so the
\* error frame of the catch (part_006:102-114) is never sent
StreamFrames(result) ==
  LET pieces == SelectSeq(result.stream, HasText)
  IN  <<MetadataFrame(result)>>
        \o [i \in 1..Len(pieces) |-> ContentFrame(pieces[i])]
        \o <<DoneFrame>>

\* part_006:4-198: the response to a request whose run rn is over
ChatResponse(rn) ==
  LET body == rn.request[1]
  IN  IF BodyError(body) # <<>> THEN CatchResponse(BodyError(body)[1])
      ELSE IF ValidationError(body) # <<>>
      THEN [status |-> 400, error |-> "Bad Request", message |-> ValidationError(body)[1]]
      ELSE IF body.stream
      THEN (IF rn.result[1].ok
            THEN [status |-> 200, contentType |-> "text/event-stream",
                  frames |-> StreamFrames(rn.result[1].value)]
            ELSE [status |-> 500, error |-> "Internal Server Error",
                  message |-> rn.result[1].error])
      ELSE (IF rn.result[1].ok
            THEN [status |-> 200, question |-> body.question,
                  answer |-> rn.result[1].value.answer,
                  sources |-> rn.result[1].value.sources,
                  contextsUsed |-> rn.result[1].value.contextsUsed,
                  tokensEstimate |-> rn.result[1].value.tokensEstimate]
            ELSE CatchResponse(rn.result[1].error))

\* part_006:4-52, 137-139: the handler up to the first model call of the
\* function it calls; a refused request ends here
PostChat(r) ==
  /\ r \in live
  /\ run[r].pc = "idle"
  /\ \E body \in Bodies, embedOk \in BOOLEAN, keyOk \in BOOLEAN :
       LET rn == [run[r] EXCEPT !.request = <<body>>]
       IN  IF BodyError(body) # <<>> \/ ValidationError(body) # <<>>
           THEN /\ run' = [run EXCEPT ![r] = [rn EXCEPT !.pc = "refused"]]
                /\ UNCHANGED <<vectorStore, loaded>>
           ELSE AnswerQuestionCall(r, rn,
                  IF body.stream THEN "answerQuestionStreaming" ELSE "answerQuestion",
                  TextOf(body.question), body.conversationHistory, embedOk, keyOk)
  /\ UNCHANGED <<disk, lastOp, purged, saved, input, output, live, mutations, threads, currentThreadId, client>>

\* records of a manual embedded with another model
LateRecords == {RecD}

\* claude.ts:334-360, called in the process that serves the requests
RunAddDocuments ==
  /\ mutations < MaxMutations
  /\ \E rec \in LateRecords : vectorStore' = addDocuments(vectorStore, <<rec>>)
  /\ mutations' = mutations + 1
  /\ UNCHANGED <<disk, lastOp, loaded, purged, saved, input, output, run, live, threads, currentThreadId, client>>

\* the stores a deployment may have been ingested with
RagStores == {<<>>, <<RecA, RecB, RecC>>, <<RecC>>, <<RecD>>, <<RecE>>}

\* the server process starts with the snapshot the ingestion script left, or
\* with a file that saveVectorStore did not write
InitRag ==
  /\ vectorStore = <<>>
  /\ \/ \E store \in RagStores :
          /\ saved = <<store>>
          /\ disk = <<saveVectorStore(store)>>
     \/ \E file \in MalformedFiles :
          /\ saved = <<>>
          /\ disk = <<file>>
  /\ lastOp = [op |-> "start"]
  /\ loaded = FALSE
  /\ purged = {}
  /\ input = <<>>
  /\ output = <<>>
  /\ run = NoRuns
  /\ live = {1}
  /\ mutations = 0
  /\ threads = <<>>
  /\ currentThreadId = <<>>
  /\ client = IdleClient

NextRag ==
  \/ \E r \in RunIds : StartAnswerQuestion(r)
  \/ \E r \in RunIds : CallModelWithTools(r)
  \/ \E r \in RunIds : CallModelFinal(r)
  \/ \E r \in RunIds : ExecuteTool(r)
  \/ \E r \in RunIds : TrackToolChunks(r)
  \/ RunAddDocuments

SpecRag == InitRag /\ [][NextRag]_vars

\* the stores a deployment that serves POST /chat may have been ingested with
ChatStores == {<<>>, <<RecA, RecC>>, <<RecC>>, <<RecE>>}

InitChat ==
  /\ vectorStore = <<>>
  /\ \/ \E store \in ChatStores :
          /\ saved = <<store>>
          /\ disk = <<saveVectorStore(store)>>
     \/ \E file \in MalformedFiles :
          /\ saved = <<>>
          /\ disk = <<file>>
  /\ lastOp = [op |-> "start"]
  /\ loaded = FALSE
  /\ purged = {}
  /\ input = <<>>
  /\ output = <<>>
  /\ run = NoRuns
  /\ live = {1}
  /\ mutations = 0
  /\ threads = <<>>
  /\ currentThreadId = <<>>
  /\ client = IdleClient

\* the requests of POST /chat served by the process
NextChat ==
  \/ \E r \in RunIds : PostChat(r)
  \/ \E r \in RunIds : CallModelWithTools(r)
  \/ \E r \in RunIds : CallModelFinal(r)
  \/ \E r \in RunIds : ExecuteTool(r)
  \/ \E r \in RunIds : TrackToolChunks(r)

SpecChat == InitChat /\ [][NextChat]_vars

\* two clients, each with a question and a history of its own
ClientQuestion == [r \in RunIds |-> IF r = 1 THEN "q1" ELSE "q2"]

ClientHistory ==
  [r \in RunIds |->
     IF r = 1 THEN <<>>
     ELSE <<Message("user", <<TextBlock("earlier question")>>),
            Message("assistant", <<TextBlock("earlier answer")>>)>>]

\* rag.ts:280-415: the call made for client r
StartClientQuestion(r) ==
  /\ r \in live
  /\ run[r].pc = "idle"
  /\ AnswerQuestionCall(r, run[r], "answerQuestion", ClientQuestion[r],
                        ClientHistory[r], TRUE, TRUE)
  /\ UNCHANGED <<disk, lastOp, purged, saved, input, output, live, mutations, threads, currentThreadId, client>>

\* two requests in flight in one process
InitConcurrent ==
  /\ vectorStore = <<>>
  /\ saved = <<<<RecA, RecC>>>>
  /\ disk = <<saveVectorStore(<<RecA, RecC>>)>>
  /\ lastOp = [op |-> "start"]
  /\ loaded = FALSE
  /\ purged = {}
  /\ input = <<>>
  /\ output = <<>>
  /\ run = NoRuns
  /\ live = RunIds
  /\ mutations = 0
  /\ threads = <<>>
  /\ currentThreadId = <<>>
  /\ client = IdleClient

\* the steps of the two requests, interleaved at every await
NextConcurrent ==
  \/ \E r \in RunIds : StartClientQuestion(r)
  \/ \E r \in RunIds : CallModelWithTools(r)
  \/ \E r \in RunIds : CallModelFinal(r)
  \/ \E r \in RunIds : ExecuteTool(r)
  \/ \E r \in RunIds : TrackToolChunks(r)

SpecConcurrent == InitConcurrent /\ [][NextConcurrent]_vars

\* records of the dimension the server embeds with, added while it runs
IngestedLate == {RecA, RecE}

\* claude.ts:327-329 and 334-360, called in the process that serves the
\* requests: the collection is emptied, or a record is added to it
MutateStore ==
  /\ mutations < MaxMutations
  /\ \/ vectorStore' = createVectorStore
     \/ \E rec \in IngestedLate : vectorStore' = addDocuments(vectorStore, <<rec>>)
  /\ mutations' = mutations + 1
  /\ UNCHANGED <<disk, lastOp, loaded, purged, saved, input, output, run, live, threads, currentThreadId, client>>

\* one request served from the snapshot <<RecA, RecC>> or <<RecC>>
InitMutate ==
  /\ vectorStore = <<>>
  /\ \E store \in {<<RecA, RecC>>, <<RecC>>} :
       /\ saved = <<store>>
       /\ disk = <<saveVectorStore(store)>>
  /\ lastOp = [op |-> "start"]
  /\ loaded = FALSE
  /\ purged = {}
  /\ input = <<>>
  /\ output = <<>>
  /\ run = NoRuns
  /\ live = {1}
  /\ mutations = 0
  /\ threads = <<>>
  /\ currentThreadId = <<>>
  /\ client = IdleClient

\* the steps of the request, with a change of the store at any await
NextMutate ==
  \/ \E r \in RunIds : StartClientQuestion(r)
  \/ \E r \in RunIds : CallModelWithTools(r)
  \/ \E r \in RunIds : CallModelFinal(r)
  \/ \E r \in RunIds : ExecuteTool(r)
  \/ \E r \in RunIds : TrackToolChunks(r)
  \/ MutateStore

SpecMutate == InitMutate /\ [][NextMutate]_vars

-----------------------------------------------------------------------------
(* The browser's chat runtime: useThreadManager.tsx and useDecodeRuntime.tsx.
   A handler works with the values of the render it was created in: messages,
   currentThreadId and the updateMessages built from them. What it writes
   through setThreads and setCurrentThreadId is state of the next render and
   is not seen by the handler that wrote it. Dates are left out of threads
   and messages; an id is the prefix and the clock reading it is made of. *)

\* useThreadManager.tsx:30
TITLE_MAX == 50

\* useThreadManager.tsx:29-36; the texts of the model have no blanks around them
generateThreadTitle(firstMessage) ==
  IF Len(firstMessage) <= TITLE_MAX THEN firstMessage
  ELSE [cut |-> Slice(firstMessage, 0, TITLE_MAX), then |-> "..."]

Thread(id, title, messages) == [id |-> id, title |-> title, messages |-> messages]

DecodeMessage(role, content, id, sources) ==
  [role |-> role, content |-> content, id |-> id, sources |-> sources]

\* useThreadManager.tsx:197-200: threads.find(...)?.messages || []
MessagesOf(ths, threadId) ==
  LET hits == {i \in DOMAIN ths : <<ths[i].id>> = threadId}
  IN  IF hits = {} THEN <<>>
      ELSE ths[CHOOSE i \in hits : \A j \in hits : i <= j].messages

\* the three updaters the runtime passes to updateMessages:
\* useDecodeRuntime.tsx:155 and 176 (append), 204 (slice), 110-134 (upsert)
ApplyUpdater(prev, u) ==
  IF u.op = "append" THEN Append(prev, u.message)
  ELSE IF u.op = "slice" THEN SliceFromZero(prev, u.end)
  ELSE IF \E i \in DOMAIN prev : prev[i].id = u.message.id
  THEN [i \in DOMAIN prev |->
          IF prev[i].id = u.message.id
          THEN [prev[i] EXCEPT !.content = u.message.content,
                               !.sources = u.message.sources]
          ELSE prev[i]]
  ELSE Append(prev, u.message)

\* useThreadManager.tsx:163-194, with the currentThreadId the callback was
\* built with
updateMessages(ths, threadId, u) ==
  IF threadId = <<>> THEN ths
  ELSE [i \in DOMAIN ths |->
          IF <<ths[i].id>> # threadId THEN ths[i]
          ELSE LET newMessages == ApplyUpdater(ths[i].messages, u)
               IN  [ths[i] EXCEPT
                      !.messages = newMessages,
                      !.title = IF Len(ths[i].messages) = 0 /\ Len(newMessages) > 0
                                THEN generateThreadTitle(newMessages[1].content)
                                ELSE @]]

IsTurn(m) == m.role \in {"user", "assistant"}

\* useDecodeRuntime.tsx:59-64
HistoryOf(msgs) ==
  LET turns == SelectSeq(msgs, IsTurn)
  IN  [i \in DOMAIN turns |-> [role |-> turns[i].role, content |-> turns[i].content]]

\* useDecodeRuntime.tsx:147-155: the message of the catch
ErrorMessage(msg, now) ==
  DecodeMessage("assistant", [sorry |-> msg], <<"error", now>>, <<>>)

\* useDecodeRuntime.tsx:44-77: sendMessage up to the await of fetch, run by a
\* handler of a render with thread threadId and messages msgs; ths is the
\* thread list as the handler has left it
SendMessage(ths, kind, threadId, msgs, parentId, userText, now) ==
  LET newThread == Thread(<<"thread", now>>, generateThreadTitle(userText), <<>>)
  IN  /\ threads' = IF threadId = <<>> THEN <<newThread>> \o ths ELSE ths
      /\ currentThreadId' = IF threadId = <<>> THEN <<newThread.id>> ELSE currentThreadId
      /\ client' = [IdleClient EXCEPT
                      !.pc = "fetch",
                      !.kind = kind,
                      !.clock = now,
                      !.threadId = threadId,
                      !.messages = msgs,
                      !.parentId = parentId,
                      !.userText = userText,
                      !.created = IF threadId = <<>> THEN <<newThread.id>> ELSE <<>>,
                      !.assistantId = <<"assistant", now>>,
                      !.request = <<[question |-> userText,
                                     conversationHistory |-> HistoryOf(msgs),
                                     stream |-> TRUE]>>]

UserTexts == {"q1", "q2"}

\* useDecodeRuntime.tsx:161-180, for a message of one text part; the composer
\* is disabled while isRunning
OnNew ==
  /\ client.pc = "idle"
  /\ client.clock < MaxClock
  /\ \E userText \in UserTexts :
       LET now == client.clock + 1
           userMessage == DecodeMessage("user", userText, <<"user", now>>, <<>>)
       IN  SendMessage(updateMessages(threads, currentThreadId,
                                      [op |-> "append", message |-> userMessage]),
                       "onNew", currentThreadId, MessagesOf(threads, currentThreadId),
                       <<>>, userText, now)
  /\ UNCHANGED <<vectorStore, disk, lastOp, loaded, purged, saved, input, output, run, live, mutations>>

\* messages.findIndex((m) => m.id === parentId), counted from 0; -1 if none
FindIndex(msgs, parentId) ==
  LET hits == {i \in DOMAIN msgs : <<msgs[i].id>> = parentId}
  IN  IF hits = {} THEN -1
      ELSE (CHOOSE i \in hits : \A j \in hits : i <= j) - 1

\* useDecodeRuntime.tsx:190-196: the last user message before messageIndex,
\* counted from 0; -1 if none
UserIndexBefore(msgs, messageIndex) ==
  LET hits == {i \in 0..(messageIndex - 1) : msgs[i + 1].role = "user"}
  IN  IF hits = {} THEN -1
      ELSE CHOOSE i \in hits : \A j \in hits : j <= i

\* useDecodeRuntime.tsx:182-208
OnReload ==
  /\ client.pc = "idle"
  /\ client.clock < MaxClock
  /\ LET msgs == MessagesOf(threads, currentThreadId)
     IN  \E parentId \in {<<>>} \cup {<<msgs[i].id>> : i \in DOMAIN msgs} :
           LET messageIndex == FindIndex(msgs, parentId)
               userIndex == UserIndexBefore(msgs, messageIndex)
           IN  IF messageIndex = -1 \/ userIndex = -1
               THEN UNCHANGED <<threads, currentThreadId, client>>
               ELSE SendMessage(updateMessages(threads, currentThreadId,
                                               [op |-> "slice", end |-> messageIndex]),
                                "onReload", currentThreadId, msgs, parentId,
                                msgs[userIndex + 1].content, client.clock + 1)
  /\ UNCHANGED <<vectorStore, disk, lastOp, loaded, purged, saved, input, output, run, live, mutations>>

\* what a streamed answer of the route carries
SampleResult ==
  [stream |-> StreamOf(AnswerText(1)),
   sources |-> <<[source |-> "manual.pdf", page |-> 10, score |-> [dot |-> 1, nn |-> 1]]>>,
   contextsUsed |-> 1,
   tokensEstimate |-> 1]

\* what fetch settles with: a rejection (status 0 here), or a response of the
\* route (part_006)
ServerResponses ==
  {[status |-> 0, message |-> "Failed to fetch"],
   [status |-> 200, contentType |-> "text/event-stream", frames |-> StreamFrames(SampleResult)],
   [status |-> 400, error |-> "Bad Request", message |-> "Question is required and must be a string"],
   CatchResponse("Failed to get text response after max iterations and final attempt")}

\* useDecodeRuntime.tsx:67-89 and 143-158
FetchSettles ==
  /\ client.pc = "fetch"
  /\ \E response \in ServerResponses :
       IF response.status = 200
       THEN /\ client' = [client EXCEPT !.pc = "reading", !.frames = response.frames]
            /\ UNCHANGED threads
       ELSE /\ threads' = updateMessages(threads, client.threadId,
                            [op |-> "append",
                             message |-> ErrorMessage(
                               IF response.status = 0 THEN response.message
                               ELSE [apiError |-> response.status],
                               client.clock)])
            /\ client' = [client EXCEPT !.pc = "idle"]
  /\ UNCHANGED <<vectorStore, disk, lastOp, loaded, purged, saved, input, output, run, live, mutations, currentThreadId>>

\* useDecodeRuntime.tsx:91-142 and 156-158: one reader.read(), which brings
\* one frame or the end of the stream
ReadStream ==
  /\ client.pc = "reading"
  /\ IF client.frames = <<>>
     THEN /\ client' = [client EXCEPT !.pc = "idle"]
          /\ UNCHANGED threads
     ELSE LET data == Head(client.frames)
              rest == Tail(client.frames)
          IN  IF data.type = "metadata"
              THEN /\ client' = [client EXCEPT !.frames = rest, !.sources = data.sources]
                   /\ UNCHANGED threads
              ELSE IF data.type = "content"
              THEN LET assistantContent == Append(client.assistantContent, data.content)
                   IN  /\ client' = [client EXCEPT !.frames = rest,
                                                   !.assistantContent = assistantContent]
                       /\ threads' = updateMessages(threads, client.threadId,
                            [op |-> "upsert",
                             message |-> DecodeMessage("assistant", assistantContent,
                                                       client.assistantId, client.sources)])
              ELSE /\ client' = [client EXCEPT !.frames = rest]
                   /\ UNCHANGED threads
  /\ UNCHANGED <<vectorStore, disk, lastOp, loaded, purged, saved, input, output, run, live, mutations, currentThreadId>>

\* page.tsx:13-15 and useThreadManager.tsx:118-134: the New Thread button
NewThread ==
  /\ client.clock < MaxClock
  /\ Len(threads) < MaxThreads
  /\ LET now == client.clock + 1
         newThread == Thread(<<"thread", now>>, "New Conversation", <<>>)
     IN  /\ threads' = <<newThread>> \o threads
         /\ currentThreadId' = <<newThread.id>>
         /\ client' = [client EXCEPT !.clock = now]
  /\ UNCHANGED <<vectorStore, disk, lastOp, loaded, purged, saved, input, output, run, live, mutations>>

\* useThreadManager.tsx:137-139
SwitchThread ==
  /\ \E i \in DOMAIN threads :
       /\ <<threads[i].id>> # currentThreadId
       /\ currentThreadId' = <<threads[i].id>>
  /\ UNCHANGED <<vectorStore, disk, lastOp, loaded, purged, saved, input, output, run, live, mutations, threads, client>>

\* useThreadManager.tsx:142-160
DeleteThread ==
  /\ \E i \in DOMAIN threads :
       LET filtered == [j \in 1..(Len(threads) - 1) |->
                          IF j < i THEN threads[j] ELSE threads[j + 1]]
       IN  /\ threads' = filtered
           /\ currentThreadId' =
                IF <<threads[i].id>> = currentThreadId
                THEN (IF Len(filtered) > 0 THEN <<filtered[1].id>> ELSE <<>>)
                ELSE currentThreadId
  /\ UNCHANGED <<vectorStore, disk, lastOp, loaded, purged, saved, input, output, run, live, mutations, client>>

\* a thread kept in localStorage by an earlier session
StoredThread ==
  Thread(<<"thread", 0>>, "q0",
         <<DecodeMessage("user", "q0", <<"user", 0>>, <<>>),
           DecodeMessage("assistant", <<Slice("a0", 0, 2)>>, <<"assistant", 0>>, <<>>)>>)

\* useThreadManager.tsx:102-105: the state is read from localStorage; there
\* is a current thread unless no thread is left
InitClient ==
  /\ vectorStore = <<>>
  /\ disk = <<>>
  /\ saved = <<>>
  /\ lastOp = [op |-> "start"]
  /\ loaded = FALSE
  /\ purged = {}
  /\ input = <<>>
  /\ output = <<>>
  /\ run = <<>>
  /\ live = {}
  /\ mutations = 0
  /\ \E stored \in {<<>>, <<StoredThread>>} :
       /\ threads = stored
       /\ currentThreadId = IF stored = <<>> THEN <<>> ELSE <<stored[1].id>>
  /\ client = IdleClient

NextClient ==
  \/ OnNew
  \/ OnReload
  \/ FetchSettles
  \/ ReadStream
  \/ NewThread
  \/ SwitchThread
  \/ DeleteThread

SpecClient == InitClient /\ [][NextClient]_vars

\* the tool loop on its own, called with any options and any tool handler
InitLoop ==
  /\ vectorStore = <<>>
  /\ disk = <<>>
  /\ saved = <<>>
  /\ lastOp = [op |-> "start"]
  /\ loaded = FALSE
  /\ purged = {}
  /\ input = <<>>
  /\ output = <<>>
  /\ run = NoRuns
  /\ live = {1}
  /\ mutations = 0
  /\ threads = <<>>
  /\ currentThreadId = <<>>
  /\ client = IdleClient

NextLoop ==
  \/ \E r \in RunIds : StartDirect(r)
  \/ \E r \in RunIds : CallModelWithTools(r)
  \/ \E r \in RunIds : CallModelFinal(r)
  \/ \E r \in RunIds : ExecuteTool(r)

SpecLoop == InitLoop /\ [][NextLoop]_vars

-----------------------------------------------------------------------------
(* Properties of extractSources, checked under SpecPure *)

ExtractSourcesDone == input.fn = "extractSources" /\ output # <<>>

\* the (source, page) key of a chunk, with the defaults for missing values
ChunkKey(c) == [source |-> SourceOrUnknown(c.metadata), page |-> PageOrZero(c.metadata)]

ChunkKeys(chunks) == {ChunkKey(chunks[i]) : i \in 1..Len(chunks)}

IsMaxScoreOf(sc, k, chunks) ==
  /\ \E i \in 1..Len(chunks) : ChunkKey(chunks[i]) = k /\ ScoreEq(chunks[i].score, sc)
  /\ \A i \in 1..Len(chunks) : ChunkKey(chunks[i]) = k => ScoreGE(sc, chunks[i].score)

\* entry e stands for key k: it has k's page, the first ':'-segment of k's
\* source (all that extractSources keeps of a source) and k's maximum score
EntryFor(e, k, chunks) ==
  /\ e.page = k.page
  /\ e.source = k.source[1]
  /\ IsMaxScoreOf(e.score, k, chunks)

\* C6: the source list has exactly one entry per distinct (source, page) key
\* of the input, the entry of a key holds the maximum score among the chunks
\* with that key, and the entries are in non-increasing order of score.
C6_OneEntryPerKeyWithMaxScore ==
  ExtractSourcesDone =>
    LET chunks == input.chunks
        out == output[1]
        keys == ChunkKeys(chunks)
    IN  /\ Len(out) = Cardinality(keys)
        /\ \A k \in keys :
             Cardinality({i \in 1..Len(out) : EntryFor(out[i], k, chunks)})
               >= Cardinality({k2 \in keys : \A i \in 1..Len(out) :
                                  EntryFor(out[i], k2, chunks) <=> EntryFor(out[i], k, chunks)})
        /\ \A k \in keys : \E i \in 1..Len(out) : EntryFor(out[i], k, chunks)
        /\ \A i, j \in 1..Len(out) : i < j => ScoreGE(out[i].score, out[j].score)

\* a key occurs twice, the later chunk with the lower score, beside another key
C6_Witness ==
  /\ ExtractSourcesDone
  /\ Len(output[1]) = 2
  /\ \E i, j \in 1..Len(input.chunks) :
       /\ i < j
       /\ ChunkKey(input.chunks[i]) = ChunkKey(input.chunks[j])
       /\ ScoreGT(input.chunks[i].score, input.chunks[j].score)

-----------------------------------------------------------------------------
(* Properties of the vector store, checked under SpecStore *)

QueryReturned == lastOp.op = "queryVectorStore" /\ lastOp.result.ok

\* the similarity of the stored record i to the query of the last call
SimilarityTo(q, i) == cosineSimilarity(q, vectorStore[i].embedding).value

\* C7: a query of a store of N records with topK = k returns min(k, N)
\* results as three parallel arrays, in non-increasing order of score, each a
\* record of the store, and no record left out scores above the lowest result.
C7_TopKResults ==
  QueryReturned =>
    LET res == lastOp.result.value
        q == lastOp.queryEmbedding
        n == Len(res.documents)
        N == Len(vectorStore)
    IN  /\ n = Min(lastOp.topK, N)
        /\ Len(res.scores) = n
        /\ Len(res.metadatas) = n
        /\ \A i, j \in 1..n : i < j => ScoreGE(res.scores[i], res.scores[j])
        /\ \E f \in [1..n -> 1..N] :
             /\ \A i, j \in 1..n : i # j => f[i] # f[j]
             /\ \A j \in 1..n :
                  /\ res.documents[j] = vectorStore[f[j]].content
                  /\ res.metadatas[j] = vectorStore[f[j]].metadata
                  /\ ScoreEq(res.scores[j], SimilarityTo(q, f[j]))
             /\ \A i \in 1..N :
                  (n > 0 /\ \A j \in 1..n : f[j] # i)
                    => ScoreGE(res.scores[n], SimilarityTo(q, i))

\* topK cuts a store whose second record scores higher than its first
C7_Witness ==
  /\ QueryReturned
  /\ Len(vectorStore) = 2
  /\ lastOp.topK = 1
  /\ Len(lastOp.result.value.documents) = 1
  /\ ScoreGT(SimilarityTo(lastOp.queryEmbedding, 2), SimilarityTo(lastOp.queryEmbedding, 1))

\* C8: after createVectorStore the collection is empty, and no query returns
\* a record discarded by the rebuild unless it was added again.
C8_RebuildDiscardsPriorRecords ==
  /\ lastOp.op = "createVectorStore" => vectorStore = <<>>
  /\ QueryReturned =>
       LET res == lastOp.result.value
       IN  \A j \in 1..Len(res.documents) :
             ~ \E r \in purged :
                 r.content = res.documents[j] /\ r.metadata = res.metadatas[j]

\* C9: once getVectorStore has completed, a repeated call returns the
\* collection in memory and does not read the snapshot.
C9_LoadIsIdempotent ==
  (lastOp.op = "getVectorStore" /\ lastOp.repeat) =>
     /\ ~lastOp.readDisk
     /\ lastOp.result = lastOp.before

\* C10: a collection loaded from a snapshot that saveVectorStore wrote is the
\* record sequence that was saved.
C10_SaveLoadRoundTrip ==
  (lastOp.op = "getVectorStore" /\ lastOp.readDisk /\ saved # <<>>) =>
     /\ lastOp.before = <<>>
     /\ lastOp.thrown = <<>>
     /\ vectorStore = saved[1]
     /\ lastOp.result = saved[1]

\* two different records were saved and loaded
C10_Witness ==
  /\ lastOp.op = "getVectorStore"
  /\ lastOp.readDisk
  /\ Len(vectorStore) = 2
  /\ vectorStore[1] # vectorStore[2]

-----------------------------------------------------------------------------
(* Properties of the tool loop and of answerQuestion *)

Last(s) == s[Len(s)]

Over(rn) == rn.pc \in {"done", "failed"}

SpecLoopLive == SpecLoop /\ WF_vars(NextLoop)

\* C1: whatever maxIterations >= 0, whatever the model answers and whether the
\* tools succeed or fail, a run of the tool loop makes at most maxIterations + 1
\* model calls and then is over, having returned text or failed
C1_TerminatesWithinMaxIterationsPlusOne ==
  /\ [](\A r \in live : Len(run[r].llmCalls) <= run[r].maxIterations + 1)
  /\ <>[](\A r \in live : Over(run[r]))

\* a run that used every iteration and the final call, with a failed tool on the way
C1_Witness ==
  \E r \in live :
    /\ run[r].pc = "done"
    /\ run[r].maxIterations = 2
    /\ Len(run[r].llmCalls) = run[r].maxIterations + 1
    /\ \E i \in DOMAIN run[r].conversationMessages :
         /\ run[r].conversationMessages[i].role = "user"
         /\ \E j \in DOMAIN run[r].conversationMessages[i].content :
              /\ run[r].conversationMessages[i].content[j].type = "tool_result"
              /\ run[r].conversationMessages[i].content[j].is_error

\* the model asked for a tool in every one of the maxIterations rounds
RequestedToolsEveryRound(rn) ==
  rn.pc = "loop" /\ rn.iterationCount = rn.maxIterations

C2_Step(r) ==
  LET a == run[r]
      b == run'[r]
  IN  /\ Len(b.llmCalls) <= b.maxIterations + 1
      /\ \A i \in 1..Len(b.llmCalls) : b.llmCalls[i].tools = (i <= b.maxIterations)
      /\ (RequestedToolsEveryRound(a) /\ b # a) =>
            /\ Len(b.llmCalls) = Len(a.llmCalls) + 1
            /\ Len(b.llmCalls) = a.maxIterations + 1
            /\ Over(b)
            /\ b.pc = "done" => b.answer = <<AnswerText(Len(b.llmCalls))>>
      /\ Over(a) => b = a

\* C2: once the model has asked for a tool in each of the maxIterations rounds,
\* the next thing the run does is one more model call, which carries no tools
\* while every call before it does; the text of that call is what is returned,
\* and a run that is over makes no model call and runs no tool
C2_ForcedFinalCallWithoutTools ==
  [][\A r \in live : C2_Step(r)]_vars

\* answerQuestion's run (maxIterations 3) returned the text of its 4th call
C2_Witness ==
  \E r \in live :
    /\ run[r].kind = "answerQuestion"
    /\ run[r].pc = "done"
    /\ Len(run[r].llmCalls) = 4
    /\ ~run[r].llmCalls[4].tools
    /\ run[r].result[1].value.answer = AnswerText(4)

C3_Step(r) ==
  LET a == run[r]
      b == run'[r]
  IN  (a.pc \in {"tool", "toolTrack"} /\ b # a) =>
        /\ b.pc \in {"tool", "toolTrack", "loop"}
        /\ b.result = <<>>
        /\ \/ /\ a.pc = "tool"
              /\ b.pc = "toolTrack"
              /\ b.toolResults = a.toolResults
              /\ b.pending = a.pending
              /\ Head(a.pending).name = "search_manual"
              /\ queryVectorStore(vectorStore, EmbedOf(Head(a.pending).input.query),
                                  TOOL_TOP_K).ok
           \/ /\ b.pending = Tail(a.pending)
              /\ Len(b.toolResults) = Len(a.toolResults) + 1
              /\ Last(b.toolResults).tool_use_id = Head(a.pending).id
              /\ (\/ Head(a.pending).name # "search_manual"
                  \/ ~queryVectorStore(vectorStore, EmbedOf(Head(a.pending).input.query),
                                       TOOL_TOP_K).ok)
                   => /\ Last(b.toolResults).is_error
                      /\ Last(b.toolResults).content.kind = "Error"
              /\ (b.pc = "loop") = (b.pending = <<>>)
              /\ b.pc = "loop" =>
                   Last(b.conversationMessages) = Message("user", b.toolResults)

\* C3: whatever fails while a tool runs (the embedding, the similarity query on
\* vectors of another length, a tool name the handler does not know), the step
\* leaves the run alive and adds to the round's results one entry for that tool
\* call, an error entry; after the last tool of the round the results are
\* appended to the conversation and the loop goes on to its next model call
C3_ToolFailureIsCaptured ==
  [][\A r \in live : C3_Step(r)]_vars

\* the tool_result blocks of the conversation
ToolResultsOf(rn) ==
  UNION {{rn.conversationMessages[i].content[j] :
            j \in {k \in DOMAIN rn.conversationMessages[i].content :
                     rn.conversationMessages[i].content[k].type = "tool_result"}} :
         i \in {k \in DOMAIN rn.conversationMessages :
                  rn.conversationMessages[k].role = "user"}}

ErrorResults(rn) ==
  {b.content.message : b \in {t \in ToolResultsOf(rn) : t.is_error}}

\* a request answered after its tools failed in each of the three ways
C3_Witness ==
  \E r \in live :
    /\ run[r].kind = "answerQuestion"
    /\ run[r].pc = "done"
    /\ run[r].answer # <<>>
    /\ ErrorResults(run[r]) =
         {"Unknown tool", "embedding failed", "Vectors must have the same length"}

ToolUsesOf(m) == SelectSeq(m.content, IsToolUse)

IsToolRequestTurn(m) == m.role = "assistant" /\ ToolUsesOf(m) # <<>>

IsToolResultTurn(m) ==
  m.role = "user" /\ \E j \in DOMAIN m.content : m.content[j].type = "tool_result"

\* one result per request, in the order of the requests, with the request's id
Answers(results, requests) ==
  /\ Len(results) = Len(requests)
  /\ \A j \in DOMAIN results :
       /\ results[j].type = "tool_result"
       /\ results[j].tool_use_id = requests[j].id

\* C4: in the conversation of a run every turn in which the model requests tools
\* is directly followed by a user turn holding one result per requested tool
\* call, in the order of the requests, each with the id of its request, for
\* succeeded and failed tools alike (while the round is still running, the
\* results gathered so far answer the first requests in order); and no result
\* turn stands anywhere else
C4_ResultsPairedInOrder ==
  \A r \in live :
    LET rn == run[r]
        c == rn.conversationMessages
    IN  /\ \A i \in DOMAIN c :
             IsToolRequestTurn(c[i]) =>
               IF i < Len(c)
               THEN /\ c[i + 1].role = "user"
                    /\ Answers(c[i + 1].content, ToolUsesOf(c[i]))
               ELSE /\ rn.pc \in {"tool", "toolTrack"}
                    /\ Len(rn.toolResults) < Len(ToolUsesOf(c[i]))
                    /\ Answers(rn.toolResults,
                               SubSeq(ToolUsesOf(c[i]), 1, Len(rn.toolResults)))
                    /\ rn.pending = SubSeq(ToolUsesOf(c[i]), Len(rn.toolResults) + 1,
                                           Len(ToolUsesOf(c[i])))
        /\ \A i \in DOMAIN c :
             IsToolResultTurn(c[i]) => i > 1 /\ IsToolRequestTurn(c[i - 1])

\* a round of two tool calls, the first failed and the second succeeded
C4_Witness ==
  \E r \in live :
    \E i \in DOMAIN run[r].conversationMessages :
      LET m == run[r].conversationMessages[i]
      IN  /\ IsToolResultTurn(m)
          /\ Len(m.content) = 2
          /\ m.content[1].is_error
          /\ ~m.content[2].is_error
          /\ m.content[1].tool_use_id # m.content[2].tool_use_id

\* the chunks a tool result hands to the model
ToolContextChunks(rn) ==
  UNION {Range(b.content.chunks) : b \in {t \in ToolResultsOf(rn) : ~t.is_error}}

\* C5: in a run of answerQuestion or answerQuestionStreaming no chunk scored
\* below MIN_SIMILARITY_SCORE is in the context packed into the prompt, in the
\* context a tool search hands to the model, or in the sources of the response
C5_NoChunkBelowMinScore ==
  \A r \in live :
    /\ \A i \in DOMAIN run[r].selectedChunks : AboveMinScore(run[r].selectedChunks[i])
    /\ \A chunk \in ToolContextChunks(run[r]) : AboveMinScore(chunk)
    /\ (run[r].pc = "done" /\ run[r].answer # <<>>) =>
         \A j \in DOMAIN run[r].result[1].value.sources :
           ScoreGE(run[r].result[1].value.sources[j].score, MIN_SIMILARITY_SCORE)

-----------------------------------------------------------------------------
(* Properties of the vector store's error handling *)

\* the file exists and is not a snapshot
SnapshotMalformed == disk # <<>> /\ disk[1] \in MalformedFiles

\* C11: a getVectorStore call that reads a file which exists and is no valid
\* snapshot throws; it does not return an empty collection
C11_MalformedSnapshotFailsLoad ==
  (lastOp.op = "getVectorStore" /\ lastOp.readDisk /\ SnapshotMalformed) =>
     lastOp.thrown # <<>>

\* C12: a query of the empty store returns three empty arrays and does not
\* throw, whatever the query embedding (of length 0, 1 or 2) and topK
C12_EmptyStoreQueryReturnsEmpty ==
  (lastOp.op = "queryVectorStore" /\ vectorStore = <<>>) =>
     /\ lastOp.result.ok
     /\ lastOp.result.value = [documents |-> <<>>, scores |-> <<>>, metadatas |-> <<>>]

\* the empty store asked for MaxK results with an embedding of length 1
C12_Witness ==
  /\ lastOp.op = "queryVectorStore"
  /\ vectorStore = <<>>
  /\ Len(lastOp.queryEmbedding) = 1
  /\ lastOp.topK = MaxK
  /\ lastOp.result.ok

\* some stored embedding has another length than the query embedding
LengthDiffers(store, q) == \E i \in 1..Len(store) : Len(store[i].embedding) # Len(q)

C13_Step ==
  (lastOp'.op = "queryVectorStore" /\ lastOp' # lastOp) =>
     /\ vectorStore' = vectorStore
     /\ LengthDiffers(vectorStore, lastOp'.queryEmbedding) =>
          /\ ~lastOp'.result.ok
          /\ lastOp'.result.error = "Vectors must have the same length"
     /\ (vectorStore # <<>> /\ lastOp'.result.ok) =>
          \A i \in 1..Len(vectorStore) :
            Len(vectorStore[i].embedding) = Len(lastOp'.queryEmbedding)

\* C13: a query of a non-empty store with an embedding whose length differs
\* from a stored embedding's throws "Vectors must have the same length"; a
\* query that returns scores compared vectors of one length only; and the
\* query leaves the records of the store as they were
C13_DimensionMismatchFailsQuery ==
  [][C13_Step]_vars

\* a store of embeddings of length 2 asked with an embedding of length 1
C13_Witness ==
  /\ lastOp.op = "queryVectorStore"
  /\ vectorStore # <<>>
  /\ \A i \in 1..Len(vectorStore) : Len(vectorStore[i].embedding) = 2
  /\ Len(lastOp.queryEmbedding) = 1
  /\ ~lastOp.result.ok

-----------------------------------------------------------------------------
(* Properties of filterAndRankChunks, checked under SpecPack *)

PackDone == input.fn = "filterAndRankChunks" /\ output # <<>>

\* ceil(characters / 4)
TokenCost(chunk) ==
  CHOOSE k \in 0..Len(chunk.text) : 4 * k >= Len(chunk.text) /\ 4 * (k - 1) < Len(chunk.text)

RECURSIVE TotalCost(_)
TotalCost(chunks) ==
  IF chunks = <<>> THEN 0 ELSE TokenCost(Head(chunks)) + TotalCost(Tail(chunks))

\* the chunks that pass the threshold, by falling score
RankedSurvivors(chunks) == SortByScore(SelectSeq(chunks, AboveMinScore))

\* C14: the chunks filterAndRankChunks returns cost, at ceil(characters / 4)
\* tokens each, no more in sum than maxTokens; they are a prefix of the
\* surviving chunks in score order, and the chunk after the prefix, if any,
\* would exceed maxTokens (no later chunk is taken in its place)
C14_PackedPrefixWithinBudget ==
  PackDone =>
    LET selected == output[1]
        ranked == RankedSurvivors(input.chunks)
        n == Len(selected)
    IN  /\ TotalCost(selected) <= input.maxTokens
        /\ n <= Len(ranked)
        /\ selected = SubSeq(ranked, 1, n)
        /\ n < Len(ranked) =>
             TotalCost(selected) + TokenCost(ranked[n + 1]) > input.maxTokens

\* packing stopped at a chunk that is too large although the chunk after it
\* would have fitted
C14_Witness ==
  /\ PackDone
  /\ LET selected == output[1]
         ranked == RankedSurvivors(input.chunks)
         n == Len(selected)
     IN  /\ n = 1
         /\ Len(ranked) = 3
         /\ TotalCost(selected) + TokenCost(ranked[3]) <= input.maxTokens
         /\ TokenCost(ranked[3]) > 0

-----------------------------------------------------------------------------
(* Properties of answerQuestion when nothing is found *)

\* getVectorStore throws on the file (claude.ts:316-317)
LoadThrows ==
  vectorStore = <<>> /\ disk # <<>> /\ disk[1] \in {NotJsonFile, NullFile}

\* the similarity of the question to the i-th record of the store
QuestionScore(store, question, i) ==
  [dot |-> Dot(EmbedOf(question), store[i].embedding),
   nn |-> Dot(EmbedOf(question), EmbedOf(question))
          * Dot(store[i].embedding, store[i].embedding)]

Comparable(store, question) ==
  \A i \in 1..Len(store) : Len(store[i].embedding) = Len(EmbedOf(question))

StoreEmpty(store) == store = <<>>

AllBelowThreshold(store, question) ==
  /\ store # <<>>
  /\ Comparable(store, question)
  /\ \A i \in 1..Len(store) :
       ~ScoreGE(QuestionScore(store, question, i), MIN_SIMILARITY_SCORE)

\* the one highest-ranked record passes the threshold and costs more than the budget
TopChunkOverBudget(store, question) ==
  /\ Comparable(store, question)
  /\ \E i \in 1..Len(store) :
       /\ ScoreGE(QuestionScore(store, question, i), MIN_SIMILARITY_SCORE)
       /\ \A j \in 1..Len(store) \ {i} :
            ScoreLT(QuestionScore(store, question, j), QuestionScore(store, question, i))
       /\ 4 * MAX_CONTEXT_TOKENS < Len(store[i].content)

StandardMessage == "I apologize, but I couldn't find any relevant information"

NothingFoundResult(kind) ==
  IF kind = "answerQuestionStreaming"
  THEN [stream |-> <<[text |-> StandardMessage, from |-> 0,
                      to |-> Len(StandardMessage)]>>, sources |-> <<>>,
        contextsUsed |-> 0, tokensEstimate |-> 0]
  ELSE [answer |-> StandardMessage, sources |-> <<>>,
        contextsUsed |-> 0, tokensEstimate |-> 0]

C15_Step(r) ==
  LET a == run[r]
      b == run'[r]
  IN  (/\ a.pc = "idle"
       /\ b.pc # "idle"
       /\ b.kind \in {"answerQuestion", "answerQuestionStreaming"}
       /\ ~LoadThrows
       /\ \/ StoreEmpty(vectorStore')
          \/ AllBelowThreshold(vectorStore', b.question)
          \/ TopChunkOverBudget(vectorStore', b.question)) =>
        /\ b.llmCalls = <<>>
        /\ b.pc \in {"done", "failed"}
        /\ b.pc = "failed" => b.result = <<Thrown("embedding failed")>>
        /\ b.pc = "done" => b.result = <<Returned(NothingFoundResult(b.kind))>>

\* C15: when the store answerQuestion queries is empty, or holds no chunk at
\* or above the threshold, or its highest-ranked chunk alone exceeds the token
\* budget, the call makes no model call and, unless the embedding of the
\* question itself failed, returns the standard message with no sources,
\* contextsUsed 0 and tokensEstimate 0: the same result for the three causes
C15_NothingFoundReturnsStandardResult ==
  [][\A r \in live : C15_Step(r)]_vars

\* answerQuestion returned the standard result because the best chunk is too large
C15_Witness ==
  \E r \in live :
    /\ run[r].kind = "answerQuestion"
    /\ run[r].pc = "done"
    /\ run[r].result = <<Returned(NothingFoundResult("answerQuestion"))>>
    /\ TopChunkOverBudget(vectorStore, run[r].question)
    /\ mutations = 0

-----------------------------------------------------------------------------
(* Properties of the route POST /chat, checked under SpecChat *)

ChatOver(rn) == rn.request # <<>> /\ rn.pc \in {"refused", "done", "failed"}

\* the initial retrieval of the request ran and left nothing to answer from
RetrievalFoundNothing(rn) ==
  /\ rn.request # <<>>
  /\ rn.pc = "done"
  /\ rn.queried
  /\ rn.selectedChunks = <<>>
  /\ rn.llmCalls = <<>>

\* C16: whenever the retrieval for the question of a request finds nothing
\* relevant (the store is empty, or no chunk passes the threshold and the
\* budget), the response of POST /chat has status 404
C16_NothingRelevantIs404 ==
  \A r \in live :
    RetrievalFoundNothing(run[r]) => ChatResponse(run[r]).status = 404

\* the question field of an object body that the route has to refuse
QuestionMissing(q) == q.type = "undefined"
QuestionNotString(q) == q.type # "string"
QuestionEmpty(q) == q.type = "string" /\ StrLength(q) = 0
QuestionBlank(q) == q.type = "string" /\ StrLength(q) > 0 /\ TrimLength(q) = 0
QuestionTooLong(q) == q.type = "string" /\ StrLength(q) > MAX_QUESTION_LENGTH

QuestionRefusable(q) ==
  \/ QuestionMissing(q)
  \/ QuestionNotString(q)
  \/ QuestionEmpty(q)
  \/ QuestionBlank(q)
  \/ QuestionTooLong(q)

IsStreamingResponse(rn) ==
  /\ ChatOver(rn)
  /\ BodyError(rn.request[1]) = <<>>
  /\ ValidationError(rn.request[1]) = <<>>
  /\ rn.request[1].stream
  /\ rn.result[1].ok

\* C18: the frames of a streaming response are, in the order sent, the
\* metadata frame with the sources and counts of the result, then content
\* frames only, then one terminal frame, which is the last frame; the terminal
\* frame of a request that was answered is the done frame. A request whose
\* answer fails gets no stream
C18_FramesInOrder ==
  \A r \in live :
    /\ IsStreamingResponse(run[r]) =>
         LET frames == ChatResponse(run[r]).frames
             result == run[r].result[1].value
         IN  /\ Len(frames) >= 2
             /\ frames[1].type = "metadata"
             /\ frames[1].sources = result.sources
             /\ frames[1].contextsUsed = result.contextsUsed
             /\ frames[1].tokensEstimate = result.tokensEstimate
             /\ \A i \in 2..(Len(frames) - 1) : frames[i].type = "content"
             /\ frames[Len(frames)].type = "done"
             /\ \A i \in 1..(Len(frames) - 1) : frames[i].type \notin {"done", "error"}
    /\ (ChatOver(run[r]) /\ run[r].pc = "failed" /\ run[r].request[1].stream) =>
         ChatResponse(run[r]).status = 500

\* a streamed answer of two content frames between metadata and done
C18_Witness ==
  \E r \in live :
    /\ IsStreamingResponse(run[r])
    /\ run[r].answer # <<>>
    /\ Len(ChatResponse(run[r]).frames) = 4
    /\ ChatResponse(run[r]).frames[2].type = "content"
    /\ ChatResponse(run[r]).frames[3].type = "content"

\* the (source, page) pairs of a source list, each source as the one segment
\* it is
SourcePairs(sources) ==
  {[source |-> <<sources[i].source>>, page |-> sources[i].page] : i \in DOMAIN sources}

\* C19: when a request of answerQuestion or answerQuestionStreaming ends with
\* an answer, the sources returned hold the (source, page) of every chunk of
\* the packed context and of every chunk that the result of a tool round
\* handed to the model
C19_SourcesCoverToolRounds ==
  \A r \in live :
    (run[r].pc = "done" /\ run[r].answer # <<>>
       /\ run[r].kind \in {"answerQuestion", "answerQuestionStreaming"}) =>
      /\ \A chunk \in ToolContextChunks(run[r]) :
           ChunkKey(chunk) \in SourcePairs(run[r].result[1].value.sources)
      /\ \A i \in DOMAIN run[r].selectedChunks :
           ChunkKey(run[r].selectedChunks[i]) \in SourcePairs(run[r].result[1].value.sources)

\* an answer whose sources hold a page that only a tool round found
C19_Witness ==
  \E r \in live :
    /\ run[r].pc = "done"
    /\ run[r].answer # <<>>
    /\ \E chunk \in ToolContextChunks(run[r]) :
         /\ AboveMinScore(chunk)
         /\ ChunkKey(chunk) \notin ChunkKeys(run[r].selectedChunks)
         /\ ChunkKey(chunk) \in SourcePairs(run[r].result[1].value.sources)

-----------------------------------------------------------------------------
(* Properties of the tool loop's handling of an empty response *)

C20_Step(r) ==
  LET a == run[r]
      b == run'[r]
  IN  /\ (a.pc = "loop" /\ LoopContinues(a) /\ b.emptyResponses > a.emptyResponses) =>
           /\ b.pc = "failed"
           /\ b.result = <<Thrown("No text content and no tool use in response")>>
           /\ b.answer = <<>>
           /\ Len(b.llmCalls) = Len(a.llmCalls) + 1
           /\ b.toolResults = a.toolResults
           /\ b.conversationMessages = a.conversationMessages
      /\ (a.pc = "failed" /\ a.emptyResponses > 0) => b = a

\* C20: a response inside the loop with neither text nor a tool request makes
\* the loop throw "No text content and no tool use in response" in the same
\* step: nothing is returned as the answer, and the run makes no model call
\* and executes no tool afterwards
C20_EmptyResponseFailsAtOnce ==
  [][\A r \in live : C20_Step(r)]_vars

\* a run that failed on an empty response after a tool round
C20_Witness ==
  \E r \in live :
    /\ run[r].pc = "failed"
    /\ run[r].emptyResponses = 1
    /\ run[r].result = <<Thrown("No text content and no tool use in response")>>
    /\ Len(run[r].llmCalls) = 2
    /\ run[r].toolCalls > 0

-----------------------------------------------------------------------------
(* Properties of the failure of the final call *)

FinalCallError == "Failed to get text response after max iterations and final attempt"

C21_Step(r) ==
  LET a == run[r]
      b == run'[r]
  IN  (a.pc = "loop" /\ ~LoopContinues(a) /\ b.emptyResponses > a.emptyResponses) =>
        /\ b.pc = "failed"
        /\ b.result = <<Thrown(FinalCallError)>>
        /\ b.answer = <<>>
        /\ b.request # <<>> =>
             /\ ChatResponse(b).status = 500
             /\ ChatResponse(b).message = FinalCallError

\* C21: when the call without tools that follows the last pass of the loop
\* gets a response with no text, the tool loop throws, answerQuestion and
\* answerQuestionStreaming let the error through to their caller, and the
\* route answers it with status 500 and the error's message: no answer is
\* returned
C21_FinalCallWithoutTextFails ==
  [][\A r \in live : C21_Step(r)]_vars

\* a request that failed on its fourth call, the one without tools
C21_Witness ==
  \E r \in live :
    /\ run[r].request # <<>>
    /\ run[r].pc = "failed"
    /\ run[r].result = <<Thrown(FinalCallError)>>
    /\ Len(run[r].llmCalls) = RAG_MAX_ITERATIONS + 1
    /\ ~Last(run[r].llmCalls).tools
    /\ ChatResponse(run[r]).status = 500

-----------------------------------------------------------------------------
(* Properties of requests in flight together, checked under SpecConcurrent *)

IsPrefix(s, t) == Len(s) <= Len(t) /\ s = SubSeq(t, 1, Len(s))

RECURSIVE Flatten(_)
Flatten(ss) == IF ss = <<>> THEN <<>> ELSE Head(ss) \o Flatten(Tail(ss))

IsToolResult(b) == b.type = "tool_result"

\* the tool results of a run in the order it obtained them: those of the
\* rounds that are over, then those of the round under way
ToolResultSeq(rn) ==
  Flatten([i \in DOMAIN rn.conversationMessages |->
             IF rn.conversationMessages[i].role = "user"
             THEN SelectSeq(rn.conversationMessages[i].content, IsToolResult)
             ELSE <<>>])
    \o (IF rn.pc \in {"tool", "toolTrack"} THEN rn.toolResults ELSE <<>>)

\* what a search of the store for the query finds
SearchChunks(query) ==
  ChunksOf(queryVectorStore(vectorStore, EmbedOf(query), TOOL_TOP_K).value)

\* the packed context of the run followed by the chunks of its own searches
OwnChunks(rn) ==
  LET trs == ToolResultSeq(rn)
  IN  rn.selectedChunks
        \o Flatten([i \in DOMAIN trs |->
                      IF trs[i].is_error THEN <<>>
                      ELSE SearchChunks(trs[i].content.query)])

C22_Private(r) ==
  LET rn == run[r]
  IN  rn.pc # "idle" =>
        /\ rn.question = ClientQuestion[r]
        /\ \A i \in DOMAIN rn.llmCalls :
             /\ IsPrefix(rn.llmCalls[i].messages, rn.conversationMessages)
             /\ IsPrefix(ClientHistory[r]
                           \o <<Message("user",
                                  <<UserPrompt(ClientQuestion[r], rn.selectedChunks)>>)>>,
                         rn.llmCalls[i].messages)
        /\ rn.iterationCount = Cardinality({i \in DOMAIN rn.llmCalls : rn.llmCalls[i].tools})
        /\ rn.allChunksUsed = OwnChunks(rn)
        /\ (rn.pc = "done" /\ rn.answer # <<>>) =>
             /\ rn.result[1].value.sources = extractSources(OwnChunks(rn))
             /\ rn.result[1].value.contextsUsed = Len(OwnChunks(rn))

C22_Frame ==
  \A r, s \in live : (r # s /\ run'[r] # run[r]) => run'[s] = run[s]

\* C22: with two requests in flight and their steps interleaved at every
\* await, every model call of a request carries that request's own history,
\* question and packed context followed only by turns of its own
\* conversation, its iteration counter counts its own calls, its chunk list
\* holds its own packed context and the chunks of its own searches, its
\* sources are drawn from that list, and a step of one request changes
\* nothing of the other
C22_RunsArePrivate ==
  /\ [](\A r \in live : C22_Private(r))
  /\ [][C22_Frame]_vars

\* both requests answered after a tool round each, their steps interleaved
C22_Witness ==
  /\ \A r \in live :
       /\ run[r].pc = "done"
       /\ run[r].answer # <<>>
       /\ Len(run[r].llmCalls) = 2
       /\ Len(run[r].allChunksUsed) > Len(run[r].selectedChunks)
  /\ run[1].result[1].value.sources # run[2].result[1].value.sources
  /\ run[1].llmCalls[2].messages # run[2].llmCalls[2].messages

-----------------------------------------------------------------------------
(* Properties of the records of the store, checked under SpecStore *)

\* C23: in every state of the store reached by createVectorStore,
\* addDocuments, getVectorStore and saveVectorStore calls, with any batches,
\* the embeddings of all records of the in-memory collection have one length
C23_OneEmbeddingLength ==
  \A i, j \in DOMAIN vectorStore :
    Len(vectorStore[i].embedding) = Len(vectorStore[j].embedding)

-----------------------------------------------------------------------------
(* Properties of cosineSimilarity, checked under SpecCosine *)

PlusOne == [dot |-> 1, nn |-> 1]
MinusOne == [dot |-> -1, nn |-> 1]

\* a vector with a component that is not 0
NonZero(a) == \E i \in DOMAIN a : a[i] # 0

\* C24: for vectors a and b of one length cosineSimilarity(a, b) is a number
\* equal to cosineSimilarity(b, a) and between -1 and 1, and
\* cosineSimilarity(a, a) is 1 when a is not the zero vector
C24_SymmetricWithinUnitRange ==
  (input.fn = "cosineSimilarity" /\ output # <<>> /\ Len(input.a) = Len(input.b)) =>
    /\ output[1].ok
    /\ cosineSimilarity(input.b, input.a).ok
    /\ ScoreEq(output[1].value, cosineSimilarity(input.b, input.a).value)
    /\ ScoreGE(output[1].value, MinusOne)
    /\ ScoreGE(PlusOne, output[1].value)
    /\ (input.a = input.b /\ NonZero(input.a)) => ScoreEq(output[1].value, PlusOne)

-----------------------------------------------------------------------------
(* Properties of the tool loop's handling of tool requests *)

C25_Step(r) ==
  LET a == run[r]
      b == run'[r]
      requested == b.toolCalls - a.toolCalls
  IN  /\ (a.pc = "loop" /\ requested > 0) =>
           /\ b.pc = "tool"
           /\ b.answer = <<>>
           /\ Len(b.pending) = requested
           /\ Last(b.conversationMessages).role = "assistant"
           /\ SelectSeq(Last(b.conversationMessages).content, IsToolUse) = b.pending
      /\ (a.pc = "loop" /\ b.pc = "done") =>
           /\ requested = 0
           /\ Cardinality(ToolResultsOf(b)) = b.toolCalls

-----------------------------------------------------------------------------
(* Properties of a tool search that finds nothing *)

\* rag.ts:213, 231: the two texts returned when nothing is found
NothingFoundKinds == {"No information found", "No highly relevant information found"}

NothingFoundPayload(payload, query) ==
  /\ payload.kind \in NothingFoundKinds
  /\ payload.query = query
  /\ payload.chunks = <<>>

EmbeddingError(toolUse) == ToolError(toolUse, "embedding failed")

C26_Step(r) ==
  LET a == run[r]
      b == run'[r]
      toolUse == Head(a.pending)
      query == toolUse.input.query
      nothing == StoreEmpty(vectorStore) \/ AllBelowThreshold(vectorStore, query)
  IN  /\ (a.pc = "tool" /\ a.kind # "direct" /\ toolUse.name = "search_manual" /\ nothing) =>
           \/ /\ b.pc = "toolTrack"
              /\ b.pending = a.pending
              /\ b.toolResults = a.toolResults
              /\ Len(b.additionalContext) = 1
              /\ NothingFoundPayload(b.additionalContext[1], query)
           \/ /\ b.pc \in {"tool", "loop"}
              /\ b.toolResults = Append(a.toolResults, EmbeddingError(toolUse))
      /\ (a.pc = "toolTrack" /\ nothing) =>
           /\ b.pc \in {"tool", "loop"}
           /\ \/ /\ b.toolResults =
                      Append(a.toolResults,
                             ToolResultBlock(toolUse.id, a.additionalContext[1], FALSE))
                 /\ NothingFoundPayload(a.additionalContext[1], query)
              \/ b.toolResults = Append(a.toolResults, EmbeddingError(toolUse))
      /\ \A q \in Questions :
           searchManualForContext(<<>>, q, TOOL_TOP_K, TRUE) =
             Returned([kind |-> "No information found", query |-> q, chunks |-> <<>>])

\* C26: a search_manual call whose search finds nothing, because the store is
\* empty or no chunk reaches the threshold, gives the model a tool result
\* that is no error and holds a "no information found" text naming the
\* query; the tool call fails only when generateEmbedding itself throws, and
\* the run goes on in either case
C26_EmptySearchIsNormalResult ==
  [][\A r \in live : C26_Step(r)]_vars

\* a request answered after a tool search that found nothing relevant
C26_Witness ==
  \E r \in live :
    /\ run[r].pc = "done"
    /\ run[r].answer # <<>>
    /\ \E t \in ToolResultsOf(run[r]) :
         /\ ~t.is_error
         /\ t.content.kind = "No highly relevant information found"
         /\ t.content.query = "q1"

-----------------------------------------------------------------------------
(* Properties of the counts returned with an answer *)

\* what makes two retrieved chunks the same chunk of the manual: the score
\* depends on the query
ChunkIdentity(c) == [text |-> c.text, metadata |-> c.metadata]

DistinctChunks(chunks) == {ChunkIdentity(chunks[i]) : i \in DOMAIN chunks}

\* C27: the contextsUsed returned with an answer is the number of distinct
\* chunks among the packed context and the chunks of all tool rounds
C27_ContextsUsedCountsDistinctChunks ==
  \A r \in live :
    (run[r].pc = "done" /\ run[r].answer # <<>>
       /\ run[r].kind \in {"answerQuestion", "answerQuestionStreaming"}) =>
      run[r].result[1].value.contextsUsed =
        Cardinality(DistinctChunks(run[r].allChunksUsed))

\* the calls of onProgress made in the loop once i records are appended
LoopCalls(i, n) ==
  [k \in 1..(i \div PROGRESS_EVERY) |-> [added |-> k * PROGRESS_EVERY, total |-> n]]

CallArgs(calls) ==
  [k \in 1..Len(calls) |-> [added |-> calls[k].added, total |-> calls[k].total]]

\* C28: addDocuments with n documents and a progress callback invokes the
\* callback after every 100th appended record with (addedSoFar, n) and once
\* more at completion with (n, n); the addedSoFar values never decrease and
\* each equals the number of records appended when the callback runs
C28_ProgressEveryHundredAndAtCompletion ==
  (lastOp.op = "addDocuments" /\ "pc" \in DOMAIN lastOp /\ input.onProgress) =>
    LET n == Len(input.documents)
    IN  /\ CallArgs(output) =
             IF lastOp.pc = "done"
             THEN LoopCalls(n, n) \o <<[added |-> n, total |-> n]>>
             ELSE LoopCalls(lastOp.i, n)
        /\ \A k \in 1..Len(output) :
             /\ output[k].added = output[k].length - Len(input.before)
             /\ k > 1 => output[k - 1].added <= output[k].added

C28_Witness ==
  /\ lastOp.op = "addDocuments" /\ "pc" \in DOMAIN lastOp
  /\ lastOp.pc = "done" /\ input.onProgress
  /\ Len(input.documents) = 2 * PROGRESS_EVERY
  /\ input.before # <<>>
  /\ Len(output) = 3

\* what a step of the store calls may do to the records in memory
C29_Step ==
  /\ lastOp'.op = "addDocuments" =>
       /\ Len(vectorStore') >= Len(vectorStore)
       /\ \A i \in 1..Len(vectorStore) :
            /\ vectorStore'[i].content = vectorStore[i].content
            /\ vectorStore'[i].embedding = vectorStore[i].embedding
            /\ vectorStore'[i].metadata = vectorStore[i].metadata
  /\ lastOp'.op \in {"queryVectorStore", "getVectorStoreStats", "saveVectorStore"} =>
       vectorStore' = vectorStore

\* C29: an Add only appends, so every record present before it keeps its
\* content, embedding, metadata and position; Query, Stats and Save leave the
\* collection in memory as it was (Stats does not load the snapshot)
C29_RecordsAreImmutable == [][C29_Step]_vars

\* an Add onto a collection that is not empty
C29_Witness ==
  /\ lastOp.op = "addDocuments"
  /\ Len(vectorStore) = 2
  /\ vectorStore[1] # vectorStore[2]

\* the history a call was given is the one the request carried, and the
\* message list handed to the tool loop holds it between the system prompt
\* and the question
C30_Inputs(r) ==
  run[r].pc \notin {"idle", "refused"} =>
    /\ run[r].conversationHistory = run[r].request[1].conversationHistory
    /\ run[r].messages # <<>> =>
         SubSeq(run[r].messages, 2, Len(run[r].messages) - 1) =
           run[r].conversationHistory

\* no step of a call that has started changes either sequence
C30_Step ==
  \A r \in live :
    run[r].pc # "idle" =>
      /\ run'[r].conversationHistory = run[r].conversationHistory
      /\ run'[r].messages = run[r].messages

\* C30: the conversation history passed to answerQuestion or
\* answerQuestionStreaming and the message list passed to
\* generateChatCompletionWithTools are inputs only: through every tool round
\* and after the call has returned or failed, both hold the turns they held
\* when the call was made
C30_HistoryAndMessagesAreInputsOnly ==
  [](\A r \in live : C30_Inputs(r)) /\ [][C30_Step]_vars

\* a call with a history that went through a tool round and is over
C30_Witness ==
  \E r \in live :
    /\ run[r].pc \in {"done", "failed"}
    /\ run[r].conversationHistory # <<>>
    /\ Len(run[r].conversationMessages) > Len(run[r].messages) - 1
    /\ Len(run[r].messages) = Len(run[r].conversationHistory) + 2

\* C31: after an ingestion pass over any number of PDFs the chunkIndex values
\* of the stored records are strictly increasing in insertion order across
\* the whole store, hence unique
C31_ChunkIndexGloballyIncreasing ==
  (lastOp.op = "main" /\ lastOp.pc = "done") =>
    \A i, j \in DOMAIN vectorStore :
      i < j => vectorStore[i].metadata.chunkIndex[1] < vectorStore[j].metadata.chunkIndex[1]

\* where in the thread, counted from 0, the question of the handler in flight
\* stands: onNew appends it, onReload sends again the user message it found
QuestionIndex ==
  IF client.kind = "onNew" THEN Len(client.messages)
  ELSE UserIndexBefore(client.messages, FindIndex(client.messages, client.parentId))

\* C32: the conversation history the chat runtime sends with a request holds
\* the turns that precede the question in the current thread and nothing
\* else: not the question itself, and on a reload none of the messages the
\* reload removed
C32_HistoryPrecedesQuestion ==
  client.request # <<>> =>
    client.request[1].conversationHistory =
      HistoryOf(SubSeq(client.messages, 1, QuestionIndex))

\* C35: when onNew is invoked while no thread is current, the thread that is
\* created holds, once the request is over, the user's message followed by
\* the assistant's reply or error message
C35_FirstExchangeIsKept ==
  (client.kind = "onNew" /\ client.pc = "idle" /\ client.threadId = <<>>) =>
    /\ client.created # <<>>
    /\ \A i \in DOMAIN threads :
         threads[i].id = client.created[1] =>
           /\ Len(threads[i].messages) = 2
           /\ threads[i].messages[1].role = "user"
           /\ threads[i].messages[1].content = client.userText
           /\ threads[i].messages[2].role = "assistant"

\* the chunks a search_manual call has recorded, when it returned a result,
\* are those of the search on the collection the result text was made from
C33_Step ==
  \A r \in live :
    (run[r].pc = "toolTrack" /\ run'[r] # run[r]
       /\ ~run'[r].toolResults[Len(run'[r].toolResults)].is_error) =>
      LET query == Head(run[r].pending).input.query
          results == queryVectorStore(run[r].searched[1], EmbedOf(query), TOOL_TOP_K)
      IN  /\ results.ok
          /\ run'[r].allChunksUsed = run[r].allChunksUsed \o ChunksOf(results.value)

\* C33: within one search_manual call, the chunks recorded for source
\* attribution are taken from the same store contents as the result text
\* returned to the model, whatever change of the store falls between the
\* call's two queries
C33_ToolChunksMatchSearch == [][C33_Step]_vars

\* the conversation of a run: the messages it was given without the system
\* message, then one pair of turns per tool round, the request of round k
\* being the response to the k-th call; every call was sent the conversation
\* as it stood after the rounds before it
C34_Shape(r) ==
  LET rn == run[r]
      initial == SelectSeq(rn.messages, NotSystem)
      cm == rn.conversationMessages
      added == Len(cm) - Len(initial)
  IN  rn.messages # <<>> =>
        /\ IsPrefix(initial, cm)
        /\ \A i \in DOMAIN cm : cm[i].role # "system"
        /\ (added % 2 = 1) <=> (rn.pc \in {"tool", "toolTrack"})
        /\ \A k \in 1..((added + 1) \div 2) :
             LET request == cm[Len(initial) + 2 * k - 1]
                 uses == SelectSeq(request.content, IsToolUse)
             IN  /\ request.role = "assistant"
                 /\ uses # <<>>
                 /\ \A j \in DOMAIN uses : uses[j].id[1] = k
                 /\ 2 * k <= added =>
                      /\ cm[Len(initial) + 2 * k].role = "user"
                      /\ Answers(cm[Len(initial) + 2 * k].content, uses)
        /\ \A i \in DOMAIN rn.llmCalls :
             rn.llmCalls[i].messages = SubSeq(cm, 1, Len(initial) + 2 * (i - 1))
        /\ rn.iterationCount =
             Cardinality({i \in DOMAIN rn.llmCalls : rn.llmCalls[i].tools})

\* turns are only appended
C34_Step ==
  \A r \in live :
    run[r].pc # "idle" =>
      IsPrefix(run[r].conversationMessages, run'[r].conversationMessages)

\* C34: in one run of the tool loop, after r completed tool rounds the
\* conversation sent to the model is the initial messages without the system
\* message followed by r pairs (assistant tool request, user tool results) in
\* round order; turns are only appended, the system message is never in the
\* list, and iterationCount is the number of model calls made in the loop
C34_ConversationIsAppendOnly ==
  [](\A r \in live : C34_Shape(r)) /\ [][C34_Step]_vars

\* a run that went through two tool rounds and made a third call
C34_Witness ==
  \E r \in live :
    /\ Len(run[r].llmCalls) = 3
    /\ Len(run[r].conversationMessages) = Len(SelectSeq(run[r].messages, NotSystem)) + 4
    /\ run[r].pc \in {"done", "failed"}

\* the (source, page) pair of a chunk as extractSources reads it
SourceAndPage(chunk) ==
  <<SourceOrUnknown(chunk.metadata), PageOrZero(chunk.metadata)>>

\* C36: every entry of extractSources' output carries the source and the page
\* of some input chunk (a missing source read as "Unknown", a missing page as
\* 0), also for a source with ':' in it, and chunks with different (source,
\* page) pairs have entries of their own
C36_EntriesCarryChunkSourceAndPage ==
  ExtractSourcesDone =>
    LET chunks == input.chunks
        out == output[1]
    IN  /\ \A i \in DOMAIN out :
             \E j \in DOMAIN chunks :
               <<<<out[i].source>>, out[i].page>> = SourceAndPage(chunks[j])
        /\ Len(out) = Cardinality({SourceAndPage(chunks[j]) : j \in DOMAIN chunks})

====
